---- MODULE Spec2Model ----
(***************************************************************************)
(* TickerTap order-execution and ledger-mutation engine.                   *)
(*                                                                         *)
(* Money is held in cents (NUMERIC(18,2)), quantities in millionths of a   *)
(* unit (NUMERIC(18,6)).  A product quantity * price is therefore a number *)
(* of micro-cents (scale 8), exactly as the Decimal product in the code.   *)
(* A value written to a NUMERIC(18,2) column is rounded by the store to    *)
(* two decimals, half away from zero.                                      *)
(*                                                                         *)
(* Every request runs in its own session.  A handler is cut into steps at  *)
(* the points where it can be suspended on the store: the SELECT ... FOR   *)
(* UPDATE that takes the row lock, and the rest of the unit of work up to  *)
(* the COMMIT that releases it.                                            *)
(***************************************************************************)
EXTENDS Integers, Sequences, FiniteSets, TLC

\* ---------------------------------------------------------------- bounds
\* Total number of requests issued in one behaviour.
MaxRequests == 3

\* The last hour the clock reaches in one behaviour.
MaxClock == 200

\* ------------------------------------------------------- program constants
\* holdings.quantity / orders.quantity are NUMERIC(18,6): one unit is 10^6.
QScale == 1000000

\* NULL of a numeric column (filled_price): no price is negative.
NullPrice == -1

Users == {"u1", "u2"}
Accounts == {"a1", "a2"}
Securities == {"s1"}
Requests == {"r1", "r2"}
NoReq == "none"

\* accounts.user_id: the owner of each account row.
Owner(a) == IF a = "a1" THEN "u1" ELSE "u2"

VARIABLES
  balance,       \* accounts.balance, in cents, per account
  holdings,      \* holdings row per (account, security): exists, quantity, average_cost, current_price
  orders,        \* orders table: sequence of rows, order_id = index
  transactions,  \* transactions table: sequence of rows
  audit,         \* audit_log table: sequence of rows
  lock,          \* account row lock: the request whose transaction holds it
  olock,         \* order row locks: set of <<order_id, request>>
  req,           \* per request slot: the request being served
  nreq,          \* number of requests issued so far
  opening,       \* balance each account had before the first request
  account_status, \* accounts.status, per account
  is_active,     \* users.is_active, per user
  password_hash, \* users.password_hash, per user
  refresh_tokens,         \* refresh_tokens table: set of rows
  password_reset_tokens,  \* password_reset_tokens table: set of rows
  issued,        \* number of tokens drawn from secrets.token_urlsafe so far
  now            \* datetime.now(timezone.utc), in hours

vars == <<balance, holdings, orders, transactions, audit, lock, olock, req, nreq, opening,
          account_status, is_active, password_hash, refresh_tokens, password_reset_tokens,
          issued, now>>
identity == <<account_status, is_active, password_hash, refresh_tokens, password_reset_tokens,
              issued, now>>
ledger == <<balance, holdings, orders, transactions, audit>>

NoHolding == [exists |-> FALSE, quantity |-> 0, average_cost |-> 0, current_price |-> 0]

\* No row of a token table.
NoRecord == [token |-> <<>>, user_id |-> "", expires_at |-> 0, used |-> FALSE]

\* ------------------------------------------------------ fixed-point helpers

\* The store's rounding of num/den to an integer, half away from zero
\* (PostgreSQL numeric rounding on assignment to a NUMERIC(p,s) column).
RoundHalfAway(num, den) ==
  LET a == IF num < 0 THEN -num ELSE num
      q == a \div den
      r == a % den
      m == IF 2 * r >= den THEN q + 1 ELSE q
  IN IF num < 0 THEN -m ELSE m

\* A micro-cent amount stored in a NUMERIC(18,2) column, in cents.
Numeric2(x) == RoundHalfAway(x, QScale)

\* notional = quantity * price (micro-cents).
Notional(q, p) == q * p

\* The funds check left out.
InsufficientFunds_unchecked(cash, notional) == FALSE

\* current_cash < notional, cash in cents against micro-cents.
InsufficientFunds(cash, notional) == cash * QScale < notional

\* account.balance = current_cash - notional, as stored.
DebitBalance(cash, notional) == Numeric2(cash * QScale - notional)

\* account.balance = account.balance + notional, as stored.
CreditBalance(cash, notional) == Numeric2(cash * QScale + notional)

\* holding is None: there is no position to sell.
NoPosition(holding) == ~holding.exists

\* The quantity check of a sell left out.
InsufficientQuantity_unchecked(holding, quantity) == FALSE

\* existing_qty < quantity: the position does not cover the sale.
InsufficientQuantity(holding, quantity) == holding.quantity < quantity

\* The average of the two prices, not weighted by the quantities.
AverageCost_unweighted(existing_qty, existing_cost, qty, notional) ==
  RoundHalfAway(existing_cost + notional \div qty, 2)

\* holding.average_cost = total_cost / total_shares, as stored (cents).
AverageCost(existing_qty, existing_cost, qty, notional) ==
  RoundHalfAway(existing_qty * existing_cost + notional, existing_qty + qty)

\* ------------------------------------------------------------ request slots

\* reference_number is optional: None.
NoReference == 0

Idle ==
  [op |-> "none", pc |-> "idle", actor |-> "u1", account |-> "a1",
   security |-> "s1", order_type |-> "", side |-> "",
   payload_order_type |-> "", payload_side |-> "", quantity |-> 0,
   price |-> 0, ttype |-> "", amount |-> 0, order_id |-> 0,
   cash |-> 0, ostatus |-> "", code |-> 0, detail |-> "",
   held |-> NoHolding, token |-> 0, record |-> NoRecord, password |-> "",
   cookie |-> 0, body |-> <<>>, peers |-> {}, bal0 |-> 0, ord0 |-> 0,
   locked0 |-> {}, reference_number |-> NoReference, status0 |-> "",
   in_transaction |-> FALSE]

InFlight(r) == req[r].pc \in {"dependency", "handler", "begin", "locked"}

\* Requests are anonymous: a new one takes the first slot that is free.
SlotsBefore(r) == IF r = "r2" THEN {"r1"} ELSE {}

\* A fresh request in slot r.  peers, bal0, ord0, locked0 and status0 are
\* history recorded for the properties: the requests in flight when this one
\* arrived, and the committed balance, number of orders, locked accounts and
\* status of the order it names at that moment.
Arrive(r, fields) ==
  /\ req[r].pc \in {"idle", "done"}
  /\ \A s \in SlotsBefore(r) : InFlight(s)
  /\ nreq < MaxRequests
  /\ nreq' = nreq + 1
  /\ req' = [s \in Requests |->
               IF s = r
               THEN [fields EXCEPT !.locked0 =
                       {a \in Accounts : account_status[a] = "locked"}]
               ELSE [req[s] EXCEPT !.peers = @ \ {r}]]

History(r, account) ==
  [peers |-> {s \in Requests \ {r} : InFlight(s)},
   bal0 |-> IF account \in Accounts THEN balance[account] ELSE 0,
   ord0 |-> Len(orders)]

Respond(r, code, detail) ==
  [req EXCEPT ![r].pc = "done", ![r].code = code, ![r].detail = detail]

\* The SELECT without FOR UPDATE: it never waits.
LockFree_no_wait(r, a) == TRUE

\* A lock on the whole accounts table instead of the one row.
LockFree_table(r, a) == \A b \in Accounts : lock[b] = NoReq

\* The account row lock is free for request r (SELECT ... FOR UPDATE returns).
LockFree(r, a) == lock[a] = NoReq

\* The order row lock is free for request r.
OrderLockFree(r, oid) == \A s \in Requests : olock[s] # oid

\* A transaction whose end leaves its row locks in place.
Release_leaks(r) == lock' = lock /\ olock' = olock

\* Rollback or commit ends the transaction: every row lock it holds is released.
Release(r) ==
  /\ lock' = [a \in Accounts |-> IF lock[a] = r THEN NoReq ELSE lock[a]]
  /\ olock' = [olock EXCEPT ![r] = 0]

\* A rejection whose audit row is written outside the unit of work.
Rollback_keeps_audit(r, code, detail) ==
  /\ req' = Respond(r, code, detail)
  /\ audit' = Append(audit, [user_id |-> req[r].actor, action |-> "transaction_create",
                              table_name |-> "transactions", record_id |-> 0,
                              old_values |-> [balance |-> <<0, 0>>],
                              new_values |-> [balance |-> <<0, 0>>,
                                              transaction_type |-> "",
                                              amount |-> <<0, 0>>]])
  /\ UNCHANGED <<balance, holdings, orders, transactions>>

\* A rejection after which the order row touched by the handler is flushed.
Rollback_flushes_order(r, code, detail) ==
  /\ req' = Respond(r, code, detail)
  /\ orders' = IF req[r].op = "execute_order"
               THEN [orders EXCEPT ![req[r].order_id].executed_at = "now"]
               ELSE orders
  /\ UNCHANGED <<balance, holdings, transactions, audit>>

\* An exception leaves the `async with db.begin()` block: the transaction is
\* rolled back, nothing it did is committed, the error is the response.
Rollback(r, code, detail) ==
  /\ req' = Respond(r, code, detail)
  /\ UNCHANGED ledger

\* UNIQUE (account_id, security_id) on holdings: the INSERT of a row, made
\* because the SELECT found none (held), fails when the table has one now.
uq_holdings_account_security(held, current) == ~(~held.exists /\ current.exists)

\* The UPDATE or DELETE of the holding row the SELECT found reaches that row.
holding_row_matched(held, current) == held.exists => current.exists

\* CHECK (balance >= 0) on accounts, CHECK (quantity > 0) on holdings.
ck_accounts_balance_positive(b) == b >= 0
ck_holdings_quantity_positive(h) == h.exists => h.quantity > 0

\* ---------------------------------------------------- create_transaction

\* A request body passed to the handler without validation.
TransactionCreate_unvalidated(ttype, amount) == TRUE

\* TransactionCreate: transaction_type is a Literal, amount is gt 0.
TransactionCreate_valid(ttype, amount) ==
  /\ ttype \in {"deposit", "withdrawal"}
  /\ amount > 0

\* POST /transactions/create arrives: request validation, then the handler's
\* own amount check; what is left enters the db.begin() block.
create_transaction_request(r, actor, account, ttype, amount, reference_number) ==
  /\ Arrive(r, [Idle EXCEPT !.op = "create_transaction", !.actor = actor,
                  !.account = account, !.ttype = ttype, !.amount = amount,
                  !.reference_number = reference_number,
                  !.peers = History(r, account).peers,
                  !.bal0 = History(r, account).bal0,
                  !.ord0 = History(r, account).ord0,
                  !.pc = IF TransactionCreate_valid(ttype, amount) /\ amount > 0
                         THEN "begin" ELSE "done",
                  !.code = IF ~TransactionCreate_valid(ttype, amount) THEN 422
                           ELSE IF amount <= 0 THEN 400 ELSE 0,
                  !.detail = IF ~TransactionCreate_valid(ttype, amount) THEN "validation error"
                             ELSE IF amount <= 0 THEN "amount must be positive" ELSE ""])
  /\ UNCHANGED <<ledger, opening, identity, lock, olock>>

\* The same request without a reference_number.
create_transaction_start(r, actor, account, ttype, amount) ==
  create_transaction_request(r, actor, account, ttype, amount, NoReference)

\* SELECT account WHERE account_id = .. AND user_id = .. FOR UPDATE.
\* No row: 404.  A row: wait for its lock, then read the balance under it.
create_transaction_lock(r) ==
  LET q == req[r] IN
  /\ q.op = "create_transaction" /\ q.pc = "begin"
  /\ IF q.account \in Accounts /\ Owner(q.account) = q.actor
     THEN /\ LockFree(r, q.account)
          /\ lock' = [lock EXCEPT ![q.account] = r]
          /\ req' = [req EXCEPT ![r].pc = "locked", ![r].cash = balance[q.account]]
     ELSE /\ req' = Respond(r, 404, "account not found")
          /\ lock' = lock
  /\ UNCHANGED <<ledger, opening, identity, olock, nreq>>

\* A withdrawal of the whole balance refused.
create_transaction_new_balance_strict(old_balance, ttype, amount) ==
  IF ttype = "deposit"
  THEN [ok |-> TRUE, balance |-> old_balance + amount, detail |-> ""]
  ELSE IF ttype = "withdrawal"
  THEN IF old_balance <= amount
       THEN [ok |-> FALSE, balance |-> old_balance, detail |-> "insufficient funds"]
       ELSE [ok |-> TRUE, balance |-> old_balance - amount, detail |-> ""]
  ELSE [ok |-> FALSE, balance |-> old_balance, detail |-> "unsupported transaction_type"]

\* The outcome of the balance computation: rejected, or the new balance.
create_transaction_new_balance(old_balance, ttype, amount) ==
  IF ttype = "deposit"
  THEN [ok |-> TRUE, balance |-> old_balance + amount, detail |-> ""]
  ELSE IF ttype = "withdrawal"
  THEN IF old_balance < amount
       THEN [ok |-> FALSE, balance |-> old_balance, detail |-> "insufficient funds"]
       ELSE [ok |-> TRUE, balance |-> old_balance - amount, detail |-> ""]
  ELSE [ok |-> FALSE, balance |-> old_balance, detail |-> "unsupported transaction_type"]

\* The balance printed as a whole number of units.
str_decimal_units(cents) == <<cents \div 100, 0>>

\* str() of a Decimal of scale 2: the units and the two decimals, as printed.
str_decimal(cents) == <<cents \div 100, cents % 100>>

\* UNIQUE (reference_number) on transactions: the INSERT fails when a row
\* carries the same reference; NULL references never collide.
uq_transactions_reference_number(reference_number, rows) ==
  \/ reference_number = NoReference
  \/ \A i \in 1..Len(rows) : rows[i].reference_number # reference_number

\* The rest of the locked unit of work: compute, UPDATE the balance, add the
\* Transaction and AuditLog rows, COMMIT (or roll back), release the lock.
create_transaction_commit(r) ==
  LET q == req[r]
      old_balance == q.cash
      res == create_transaction_new_balance(old_balance, q.ttype, q.amount)
      new_txn == [transaction_id |-> Len(transactions) + 1,
                  account_id |-> q.account, transaction_type |-> q.ttype,
                  amount |-> q.amount, reference_number |-> q.reference_number,
                  status |-> "completed"]
      \* record_id is read from new_txn before the row is flushed: the
      \* column default has not run yet, the attribute is None.
      audit_row == [user_id |-> q.actor, action |-> "transaction_create",
                    table_name |-> "transactions", record_id |-> 0,
                    old_values |-> [balance |-> str_decimal(old_balance)],
                    new_values |-> [balance |-> str_decimal(res.balance),
                                    transaction_type |-> q.ttype,
                                    amount |-> str_decimal(q.amount)]]
  IN
  /\ q.op = "create_transaction" /\ q.pc = "locked"
  /\ Release(r)
  /\ IF ~res.ok
     THEN Rollback(r, 400, res.detail)
     ELSE IF ~ck_accounts_balance_positive(res.balance)
     THEN Rollback(r, 500, "IntegrityError")
     ELSE IF ~uq_transactions_reference_number(q.reference_number, transactions)
     THEN Rollback(r, 500, "IntegrityError")
     ELSE /\ balance' = [balance EXCEPT ![q.account] = res.balance]
          /\ transactions' = Append(transactions, new_txn)
          /\ audit' = Append(audit, audit_row)
          /\ req' = Respond(r, 200, "")
          /\ UNCHANGED <<holdings, orders>>
  /\ UNCHANGED <<opening, identity, nreq>>

\* ------------------------------------------------------------ place_order

\* OrderCreate: order_type and side are Literals, quantity and price are gt 0.
OrderCreate_valid(order_type, side, quantity, price) ==
  /\ order_type \in {"market", "limit"}
  /\ side \in {"buy", "sell"}
  /\ quantity > 0
  /\ price > 0

\* str.lower() on the strings requests are made of.
lower(s) ==
  CASE s \in {"BUY", "Buy"} -> "buy"
    [] s \in {"SELL", "Sell"} -> "sell"
    [] s \in {"MARKET", "Market"} -> "market"
    [] s \in {"LIMIT", "Limit"} -> "limit"
    [] s \in {"HOLD"} -> "hold"
    [] s \in {"STOP"} -> "stop"
    [] OTHER -> s

\* _normalize_side / _normalize_order_type: the lower-cased value, and
\* whether it is one of the accepted ones (otherwise HTTP 400).
normalize_side(side) == lower(side)
normalize_side_ok(side) == lower(side) \in {"buy", "sell"}
normalize_order_type(order_type) == lower(order_type)
normalize_order_type_ok(order_type) == lower(order_type) \in {"market", "limit"}

\* The handler's checks before any database access: the 400 it raises, or "".
place_order_precheck(order_type, side, quantity, price) ==
  IF quantity <= 0 THEN "quantity must be positive"
  ELSE IF price <= 0 THEN "price must be positive"
  ELSE IF ~normalize_side_ok(side) THEN "side must be 'buy' or 'sell'"
  ELSE IF ~normalize_order_type_ok(order_type) THEN "order_type must be 'market' or 'limit'"
  ELSE ""

\* POST /orders arrives.
place_order_start(r, actor, account, security, order_type, side, quantity, price) ==
  LET valid == OrderCreate_valid(order_type, side, quantity, price)
      pre == place_order_precheck(order_type, side, quantity, price)
  IN
  /\ Arrive(r, [Idle EXCEPT !.op = "place_order", !.actor = actor,
                  !.account = account, !.security = security,
                  !.payload_order_type = order_type, !.payload_side = side,
                  !.order_type = normalize_order_type(order_type),
                  !.side = normalize_side(side),
                  !.quantity = quantity, !.price = price,
                  !.peers = History(r, account).peers,
                  !.bal0 = History(r, account).bal0,
                  !.ord0 = History(r, account).ord0,
                  !.pc = IF valid /\ pre = "" THEN "begin" ELSE "done",
                  !.code = IF ~valid THEN 422 ELSE IF pre # "" THEN 400 ELSE 0,
                  !.detail = IF ~valid THEN "validation error" ELSE pre])
  /\ UNCHANGED <<ledger, opening, identity, lock, olock>>

\* A limit order stored with its quantity as filled_quantity.
place_order_limit_prefilled(r) ==
  LET q == req[r]
      order == [order_id |-> Len(orders) + 1, account_id |-> q.account,
                security_id |-> q.security, order_type |-> q.order_type,
                side |-> q.side, quantity |-> q.quantity, price |-> q.price,
                status |-> "pending", filled_quantity |-> q.quantity,
                filled_price |-> NullPrice,
                executed_at |-> "NULL", cancelled_at |-> "NULL"]
  IN
  /\ q.op = "place_order" /\ q.pc = "begin" /\ q.order_type = "limit"
  /\ IF q.account \in Accounts /\ Owner(q.account) = q.actor
     THEN /\ LockFree(r, q.account)
          /\ orders' = Append(orders, order)
          /\ req' = Respond(r, 201, "")
     ELSE /\ req' = Respond(r, 404, "account not found")
          /\ orders' = orders
  /\ UNCHANGED <<balance, holdings, transactions, audit, opening, identity, lock, olock, nreq>>

\* A limit order that is refused at placement when the balance does not
\* cover a buy.
place_order_limit_checks_funds(r) ==
  LET q == req[r]
      order == [order_id |-> Len(orders) + 1, account_id |-> q.account,
                security_id |-> q.security, order_type |-> q.order_type,
                side |-> q.side, quantity |-> q.quantity, price |-> q.price,
                status |-> "pending", filled_quantity |-> 0,
                filled_price |-> NullPrice,
                executed_at |-> "NULL", cancelled_at |-> "NULL"]
  IN
  /\ q.op = "place_order" /\ q.pc = "begin" /\ q.order_type = "limit"
  /\ IF ~(q.account \in Accounts /\ Owner(q.account) = q.actor)
     THEN /\ req' = Respond(r, 404, "account not found")
          /\ orders' = orders
     ELSE IF q.side = "buy"
             /\ InsufficientFunds(balance[q.account], Notional(q.quantity, q.price))
     THEN /\ req' = Respond(r, 400, "insufficient funds")
          /\ orders' = orders
     ELSE /\ LockFree(r, q.account)
          /\ orders' = Append(orders, order)
          /\ req' = Respond(r, 201, "")
  /\ UNCHANGED <<balance, holdings, transactions, audit, opening, identity, lock, olock, nreq>>

\* Limit order: the account is looked up without a lock and a pending Order
\* row is inserted; nothing else is touched.  The INSERT checks the foreign
\* key orders.account_id, which waits while the account row is locked FOR
\* UPDATE by another transaction.
place_order_limit(r) ==
  LET q == req[r]
      order == [order_id |-> Len(orders) + 1, account_id |-> q.account,
                security_id |-> q.security, order_type |-> q.order_type,
                side |-> q.side, quantity |-> q.quantity, price |-> q.price,
                status |-> "pending", filled_quantity |-> 0,
                filled_price |-> NullPrice,
                executed_at |-> "NULL", cancelled_at |-> "NULL"]
  IN
  /\ q.op = "place_order" /\ q.pc = "begin" /\ q.order_type = "limit"
  /\ IF q.account \in Accounts /\ Owner(q.account) = q.actor
     THEN /\ LockFree(r, q.account)
          /\ orders' = Append(orders, order)
          /\ req' = Respond(r, 201, "")
     ELSE /\ req' = Respond(r, 404, "account not found")
          /\ orders' = orders
  /\ UNCHANGED <<balance, holdings, transactions, audit, opening, identity, lock, olock, nreq>>

\* Market order: SELECT account ... FOR UPDATE, as in create_transaction,
\* then the SELECT of the holding row.
place_order_lock(r) ==
  LET q == req[r] IN
  /\ q.op = "place_order" /\ q.pc = "begin" /\ q.order_type = "market"
  /\ IF q.account \in Accounts /\ Owner(q.account) = q.actor
     THEN /\ LockFree(r, q.account)
          /\ lock' = [lock EXCEPT ![q.account] = r]
          /\ req' = [req EXCEPT ![r].pc = "locked", ![r].cash = balance[q.account],
                                ![r].held = holdings[<<q.account, q.security>>]]
     ELSE /\ req' = Respond(r, 404, "account not found")
          /\ lock' = lock
  /\ UNCHANGED <<ledger, opening, identity, olock, nreq>>

\* A market order whose sell of the whole position keeps the row at zero.
place_order_accounting_keeps_empty(side, quantity, effective_price, cash, holding) ==
  LET notional == Notional(quantity, effective_price) IN
  IF side = "buy"
  THEN IF InsufficientFunds(cash, notional)
       THEN [ok |-> FALSE, detail |-> "insufficient funds",
             balance |-> cash, holding |-> holding]
       ELSE [ok |-> TRUE, detail |-> "",
             balance |-> DebitBalance(cash, notional),
             holding |->
               IF ~holding.exists
               THEN [exists |-> TRUE, quantity |-> quantity,
                     average_cost |-> effective_price,
                     current_price |-> effective_price]
               ELSE [exists |-> TRUE,
                     quantity |-> holding.quantity + quantity,
                     average_cost |-> AverageCost(holding.quantity, holding.average_cost,
                                                  quantity, notional),
                     current_price |-> effective_price]]
  ELSE IF NoPosition(holding)
       THEN [ok |-> FALSE, detail |-> "no position to sell",
             balance |-> cash, holding |-> holding]
       ELSE IF InsufficientQuantity(holding, quantity)
       THEN [ok |-> FALSE, detail |-> "insufficient quantity",
             balance |-> cash, holding |-> holding]
       ELSE [ok |-> TRUE, detail |-> "",
             balance |-> CreditBalance(cash, notional),
             holding |-> [holding EXCEPT !.quantity = holding.quantity - quantity,
                                         !.current_price = effective_price]]

\* A sell that sets average_cost to the sale price.
place_order_accounting_sell_reprices(side, quantity, effective_price, cash, holding) ==
  LET notional == Notional(quantity, effective_price) IN
  IF side = "buy"
  THEN IF InsufficientFunds(cash, notional)
       THEN [ok |-> FALSE, detail |-> "insufficient funds",
             balance |-> cash, holding |-> holding]
       ELSE [ok |-> TRUE, detail |-> "",
             balance |-> DebitBalance(cash, notional),
             holding |->
               IF ~holding.exists
               THEN [exists |-> TRUE, quantity |-> quantity,
                     average_cost |-> effective_price,
                     current_price |-> effective_price]
               ELSE [exists |-> TRUE,
                     quantity |-> holding.quantity + quantity,
                     average_cost |-> AverageCost(holding.quantity, holding.average_cost,
                                                  quantity, notional),
                     current_price |-> effective_price]]
  ELSE IF NoPosition(holding)
       THEN [ok |-> FALSE, detail |-> "no position to sell",
             balance |-> cash, holding |-> holding]
       ELSE IF InsufficientQuantity(holding, quantity)
       THEN [ok |-> FALSE, detail |-> "insufficient quantity",
             balance |-> cash, holding |-> holding]
       ELSE [ok |-> TRUE, detail |-> "",
             balance |-> CreditBalance(cash, notional),
             holding |->
               IF holding.quantity - quantity = 0
               THEN NoHolding
               ELSE [holding EXCEPT !.quantity = holding.quantity - quantity,
                                    !.average_cost = effective_price,
                                    !.current_price = effective_price]]

\* The buy/sell accounting of a market order against the balance read under
\* the lock and the holding row just selected.
place_order_accounting(side, quantity, effective_price, cash, holding) ==
  LET notional == Notional(quantity, effective_price) IN
  IF side = "buy"
  THEN IF InsufficientFunds(cash, notional)
       THEN [ok |-> FALSE, detail |-> "insufficient funds",
             balance |-> cash, holding |-> holding]
       ELSE [ok |-> TRUE, detail |-> "",
             balance |-> DebitBalance(cash, notional),
             holding |->
               IF ~holding.exists
               THEN [exists |-> TRUE, quantity |-> quantity,
                     average_cost |-> effective_price,
                     current_price |-> effective_price]
               ELSE [exists |-> TRUE,
                     quantity |-> holding.quantity + quantity,
                     average_cost |-> AverageCost(holding.quantity, holding.average_cost,
                                                  quantity, notional),
                     current_price |-> effective_price]]
  ELSE IF NoPosition(holding)
       THEN [ok |-> FALSE, detail |-> "no position to sell",
             balance |-> cash, holding |-> holding]
       ELSE IF InsufficientQuantity(holding, quantity)
       THEN [ok |-> FALSE, detail |-> "insufficient quantity",
             balance |-> cash, holding |-> holding]
       ELSE [ok |-> TRUE, detail |-> "",
             balance |-> CreditBalance(cash, notional),
             holding |->
               IF holding.quantity - quantity = 0
               THEN NoHolding
               ELSE [holding EXCEPT !.quantity = holding.quantity - quantity,
                                    !.current_price = effective_price]]

\* A market order stored as filled without its filled_quantity.
place_order_commit_no_filled_quantity(r) ==
  LET q == req[r]
      key == <<q.account, q.security>>
      res == place_order_accounting(q.side, q.quantity, q.price, q.cash, q.held)
      order == [order_id |-> Len(orders) + 1, account_id |-> q.account,
                security_id |-> q.security, order_type |-> q.order_type,
                side |-> q.side, quantity |-> q.quantity, price |-> q.price,
                status |-> "filled", filled_quantity |-> 0,
                filled_price |-> q.price,
                executed_at |-> "NULL", cancelled_at |-> "NULL"]
  IN
  /\ q.op = "place_order" /\ q.pc = "locked"
  /\ Release(r)
  /\ IF ~res.ok
     THEN Rollback(r, 400, res.detail)
     ELSE IF ~(ck_accounts_balance_positive(res.balance)
               /\ ck_holdings_quantity_positive(res.holding)
               /\ uq_holdings_account_security(q.held, holdings[key]))
     THEN Rollback(r, 500, "IntegrityError")
     ELSE IF ~holding_row_matched(q.held, holdings[key])
     THEN Rollback(r, 500, "StaleDataError")
     ELSE /\ balance' = [balance EXCEPT ![q.account] = res.balance]
          /\ holdings' = [holdings EXCEPT ![key] = res.holding]
          /\ orders' = Append(orders, order)
          /\ req' = Respond(r, 201, "")
          /\ UNCHANGED <<transactions, audit>>
  /\ UNCHANGED <<opening, identity, nreq>>

\* The rest of the market order: accounting, the filled Order row, COMMIT.
place_order_commit(r) ==
  LET q == req[r]
      key == <<q.account, q.security>>
      res == place_order_accounting(q.side, q.quantity, q.price, q.cash, q.held)
      order == [order_id |-> Len(orders) + 1, account_id |-> q.account,
                security_id |-> q.security, order_type |-> q.order_type,
                side |-> q.side, quantity |-> q.quantity, price |-> q.price,
                status |-> "filled", filled_quantity |-> q.quantity,
                filled_price |-> q.price,
                executed_at |-> "NULL", cancelled_at |-> "NULL"]
  IN
  /\ q.op = "place_order" /\ q.pc = "locked"
  /\ Release(r)
  /\ IF ~res.ok
     THEN Rollback(r, 400, res.detail)
     ELSE IF ~(ck_accounts_balance_positive(res.balance)
               /\ ck_holdings_quantity_positive(res.holding)
               /\ uq_holdings_account_security(q.held, holdings[key]))
     THEN Rollback(r, 500, "IntegrityError")
     ELSE IF ~holding_row_matched(q.held, holdings[key])
     THEN Rollback(r, 500, "StaleDataError")
     ELSE /\ balance' = [balance EXCEPT ![q.account] = res.balance]
          /\ holdings' = [holdings EXCEPT ![key] = res.holding]
          /\ orders' = Append(orders, order)
          /\ req' = Respond(r, 201, "")
          /\ UNCHANGED <<transactions, audit>>
  /\ UNCHANGED <<opening, identity, nreq>>

\* ----------------------------------------------------------- cancel_order

\* The order looked up without the filter on the caller's user_id.
OrderVisible_any_owner(actor, oid) == oid \in 1..Len(orders)

\* The order row joined to its account, filtered on the caller's user_id.
OrderVisible(actor, oid) ==
  /\ oid \in 1..Len(orders)
  /\ Owner(orders[oid].account_id) = actor

\* POST /orders/{id}/cancel arrives: nothing is checked before db.begin().
cancel_order_start(r, actor, oid) ==
  /\ Arrive(r, [Idle EXCEPT !.op = "cancel_order", !.actor = actor,
                  !.order_id = oid, !.pc = "begin",
                  !.status0 = IF oid \in 1..Len(orders) THEN orders[oid].status ELSE "",
                  !.peers = History(r, "").peers,
                  !.ord0 = History(r, "").ord0])
  /\ UNCHANGED <<ledger, opening, identity, lock, olock>>

\* SELECT order JOIN account ... FOR UPDATE: both rows are locked; the order
\* row is read under the lock.
cancel_order_lock(r) ==
  LET q == req[r] IN
  /\ q.op = "cancel_order" /\ q.pc = "begin"
  /\ IF OrderVisible(q.actor, q.order_id)
     THEN LET o == orders[q.order_id] IN
          /\ LockFree(r, o.account_id)
          /\ OrderLockFree(r, q.order_id)
          /\ lock' = [lock EXCEPT ![o.account_id] = r]
          /\ olock' = [olock EXCEPT ![r] = q.order_id]
          /\ req' = [req EXCEPT ![r].pc = "locked", ![r].account = o.account_id,
                                ![r].ostatus = o.status]
     ELSE /\ req' = Respond(r, 404, "order not found")
          /\ UNCHANGED <<lock, olock>>
  /\ UNCHANGED <<ledger, opening, identity, nreq>>

\* The status check of cancel_order left out.
cancel_order_not_pending_unchecked(status) == FALSE

\* order.status != "pending" in cancel_order.
cancel_order_not_pending(status) == status # "pending"

\* A cancellation that sets the status and forgets cancelled_at.
cancel_order_commit_no_timestamp(r) ==
  LET q == req[r] IN
  /\ q.op = "cancel_order" /\ q.pc = "locked"
  /\ Release(r)
  /\ IF cancel_order_not_pending(q.ostatus)
     THEN Rollback(r, 400, "only pending orders can be cancelled")
     ELSE /\ orders' = [orders EXCEPT ![q.order_id].status = "cancelled"]
          /\ req' = Respond(r, 200, "")
          /\ UNCHANGED <<balance, holdings, transactions, audit>>
  /\ UNCHANGED <<opening, identity, nreq>>

\* status check, then status = cancelled, cancelled_at = now, COMMIT.
cancel_order_commit(r) ==
  LET q == req[r] IN
  /\ q.op = "cancel_order" /\ q.pc = "locked"
  /\ Release(r)
  /\ IF cancel_order_not_pending(q.ostatus)
     THEN Rollback(r, 400, "only pending orders can be cancelled")
     ELSE /\ orders' = [orders EXCEPT ![q.order_id].status = "cancelled",
                                      ![q.order_id].cancelled_at = "now"]
          /\ req' = Respond(r, 200, "")
          /\ UNCHANGED <<balance, holdings, transactions, audit>>
  /\ UNCHANGED <<opening, identity, nreq>>

\* ---------------------------------------------------------- execute_order

\* POST /orders/{id}/execute arrives.
execute_order_start(r, actor, oid) ==
  /\ Arrive(r, [Idle EXCEPT !.op = "execute_order", !.actor = actor,
                  !.order_id = oid, !.pc = "begin",
                  !.status0 = IF oid \in 1..Len(orders) THEN orders[oid].status ELSE "",
                  !.peers = History(r, "").peers,
                  !.ord0 = History(r, "").ord0])
  /\ UNCHANGED <<ledger, opening, identity, lock, olock>>

\* SELECT order, account JOIN ... FOR UPDATE: both rows locked and read.
execute_order_lock(r) ==
  LET q == req[r] IN
  /\ q.op = "execute_order" /\ q.pc = "begin"
  /\ IF OrderVisible(q.actor, q.order_id)
     THEN LET o == orders[q.order_id] IN
          /\ LockFree(r, o.account_id)
          /\ OrderLockFree(r, q.order_id)
          /\ lock' = [lock EXCEPT ![o.account_id] = r]
          /\ olock' = [olock EXCEPT ![r] = q.order_id]
          /\ req' = [req EXCEPT ![r].pc = "locked", ![r].account = o.account_id,
                                ![r].security = o.security_id,
                                ![r].side = normalize_side(o.side),
                                ![r].quantity = o.quantity,
                                ![r].price = o.price, ![r].ostatus = o.status,
                                ![r].cash = balance[o.account_id],
                                ![r].held = holdings[<<o.account_id, o.security_id>>]]
     ELSE /\ req' = Respond(r, 404, "order not found")
          /\ UNCHANGED <<lock, olock>>
  /\ UNCHANGED <<ledger, opening, identity, nreq>>

\* The status check of execute_order left out.
execute_order_not_pending_unchecked(status) == FALSE

\* order.status != "pending" in execute_order.
execute_order_not_pending(status) == status # "pending"

\* An execution that rejects a buy taking the whole balance and leaves
\* current_price alone on a partial sell.
execute_order_accounting_drifted(side, qty, price, cash, holding) ==
  LET notional == Notional(qty, price) IN
  IF side = "buy"
  THEN IF cash * QScale <= notional
       THEN [ok |-> FALSE, detail |-> "insufficient funds for execution",
             balance |-> cash, holding |-> holding]
       ELSE [ok |-> TRUE, detail |-> "",
             balance |-> DebitBalance(cash, notional),
             holding |->
               IF ~holding.exists
               THEN [exists |-> TRUE, quantity |-> qty,
                     average_cost |-> price, current_price |-> price]
               ELSE [exists |-> TRUE,
                     quantity |-> holding.quantity + qty,
                     average_cost |-> AverageCost(holding.quantity, holding.average_cost,
                                                  qty, notional),
                     current_price |-> price]]
  ELSE IF NoPosition(holding)
       THEN [ok |-> FALSE, detail |-> "no position to sell",
             balance |-> cash, holding |-> holding]
       ELSE IF InsufficientQuantity(holding, qty)
       THEN [ok |-> FALSE, detail |-> "insufficient quantity for execution",
             balance |-> cash, holding |-> holding]
       ELSE [ok |-> TRUE, detail |-> "",
             balance |-> CreditBalance(cash, notional),
             holding |->
               IF holding.quantity - qty = 0
               THEN NoHolding
               ELSE [holding EXCEPT !.quantity = holding.quantity - qty]]

\* The buy/sell accounting of execute_order, from the order's stored side,
\* quantity and price.
execute_order_accounting(side, qty, price, cash, holding) ==
  LET notional == Notional(qty, price) IN
  IF side = "buy"
  THEN IF InsufficientFunds(cash, notional)
       THEN [ok |-> FALSE, detail |-> "insufficient funds for execution",
             balance |-> cash, holding |-> holding]
       ELSE [ok |-> TRUE, detail |-> "",
             balance |-> DebitBalance(cash, notional),
             holding |->
               IF ~holding.exists
               THEN [exists |-> TRUE, quantity |-> qty,
                     average_cost |-> price, current_price |-> price]
               ELSE [exists |-> TRUE,
                     quantity |-> holding.quantity + qty,
                     average_cost |-> AverageCost(holding.quantity, holding.average_cost,
                                                  qty, notional),
                     current_price |-> price]]
  ELSE IF NoPosition(holding)
       THEN [ok |-> FALSE, detail |-> "no position to sell",
             balance |-> cash, holding |-> holding]
       ELSE IF InsufficientQuantity(holding, qty)
       THEN [ok |-> FALSE, detail |-> "insufficient quantity for execution",
             balance |-> cash, holding |-> holding]
       ELSE [ok |-> TRUE, detail |-> "",
             balance |-> CreditBalance(cash, notional),
             holding |->
               IF holding.quantity - qty = 0
               THEN NoHolding
               ELSE [holding EXCEPT !.quantity = holding.quantity - qty,
                                    !.current_price = price]]

\* An execution that checks the status the order had before the lock was
\* taken.
execute_order_commit_status_before_lock(r) ==
  LET q == req[r]
      key == <<q.account, q.security>>
      res == execute_order_accounting(q.side, q.quantity, q.price, q.cash, q.held)
  IN
  /\ q.op = "execute_order" /\ q.pc = "locked"
  /\ Release(r)
  /\ IF execute_order_not_pending(q.status0)
     THEN Rollback(r, 400, "only pending orders can be executed")
     ELSE IF ~res.ok
     THEN Rollback(r, 400, res.detail)
     ELSE IF ~(ck_accounts_balance_positive(res.balance)
               /\ ck_holdings_quantity_positive(res.holding)
               /\ uq_holdings_account_security(q.held, holdings[key]))
     THEN Rollback(r, 500, "IntegrityError")
     ELSE IF ~holding_row_matched(q.held, holdings[key])
     THEN Rollback(r, 500, "StaleDataError")
     ELSE /\ balance' = [balance EXCEPT ![q.account] = res.balance]
          /\ holdings' = [holdings EXCEPT ![key] = res.holding]
          /\ orders' = [orders EXCEPT ![q.order_id].status = "filled",
                                      ![q.order_id].filled_quantity = q.quantity,
                                      ![q.order_id].filled_price = q.price,
                                      ![q.order_id].executed_at = "now"]
          /\ req' = Respond(r, 200, "")
          /\ UNCHANGED <<transactions, audit>>
  /\ UNCHANGED <<opening, identity, nreq>>

\* status check, accounting, order -> filled, COMMIT.
execute_order_commit(r) ==
  LET q == req[r]
      key == <<q.account, q.security>>
      res == execute_order_accounting(q.side, q.quantity, q.price, q.cash, q.held)
  IN
  /\ q.op = "execute_order" /\ q.pc = "locked"
  /\ Release(r)
  /\ IF execute_order_not_pending(q.ostatus)
     THEN Rollback(r, 400, "only pending orders can be executed")
     ELSE IF ~res.ok
     THEN Rollback(r, 400, res.detail)
     ELSE IF ~(ck_accounts_balance_positive(res.balance)
               /\ ck_holdings_quantity_positive(res.holding)
               /\ uq_holdings_account_security(q.held, holdings[key]))
     THEN Rollback(r, 500, "IntegrityError")
     ELSE IF ~holding_row_matched(q.held, holdings[key])
     THEN Rollback(r, 500, "StaleDataError")
     ELSE /\ balance' = [balance EXCEPT ![q.account] = res.balance]
          /\ holdings' = [holdings EXCEPT ![key] = res.holding]
          /\ orders' = [orders EXCEPT ![q.order_id].status = "filled",
                                      ![q.order_id].filled_quantity = q.quantity,
                                      ![q.order_id].filled_price = q.price,
                                      ![q.order_id].executed_at = "now"]
          /\ req' = Respond(r, 200, "")
          /\ UNCHANGED <<transactions, audit>>
  /\ UNCHANGED <<opening, identity, nreq>>

\* ------------------------------------------------------------------- auth

\* Passwords the users type.
InitialPassword == "secret0"

\* hash_password / verify_password: the hash of a password matches that
\* password and no other.
hash_password(password) == <<"argon2", password>>
verify_password(hash, password) == hash = hash_password(password)

\* _hash_token: the SHA-256 digest of a raw token; only the digest is stored.
hash_token(raw_token) == <<"sha256", raw_token>>

\* Token lifetimes in hours: REFRESH_TOKEN_EXPIRE_DAYS = 7 days, reset links
\* one hour.
RefreshTokenHours == 168
ResetTokenHours == 1

\* No refresh cookie in the request.
NoCookie == 0

\* SELECT ... WHERE token = hash (the column is unique): the row, or none.
TokenRecord(table, hash) ==
  IF \E t \in table : t.token = hash
  THEN CHOOSE t \in table : t.token = hash
  ELSE NoRecord

\* The state no handler of this section writes.
trading == <<balance, holdings, orders, transactions, opening, lock, olock, account_status>>

\* get_current_user for the access token of u: SELECT the user; 401 unless
\* the row exists and is_active.
get_current_user(u) == u \in Users /\ is_active[u]

\* A request of u with Depends(get_current_user): the handler starts, or the
\* dependency answers 401.
authenticated(r, u, handler_start) ==
  IF get_current_user(u)
  THEN handler_start
  ELSE /\ Arrive(r, [Idle EXCEPT !.op = "get_current_user", !.actor = u,
                       !.pc = "done", !.code = 401,
                       !.detail = "user not found or inactive"])
       /\ UNCHANGED <<ledger, opening, identity, lock, olock>>

\* dependencies.get_current_user, the dependency of the market routes: the
\* bearer token is decoded and its subject returned; no user row is read.
bearer_get_current_user(u) == u \in Users

\* GET /market/quote/{symbol} with the access token of u: the quote from the
\* cache or the price source (200), or 404 when it cannot be fetched.
get_quote(r, u, fetched) ==
  LET code == IF ~bearer_get_current_user(u) THEN 401 ELSE IF fetched THEN 200 ELSE 404 IN
  /\ Arrive(r, [Idle EXCEPT !.op = "get_quote", !.actor = u, !.pc = "done",
                  !.code = code,
                  !.detail = IF code = 401 THEN "Invalid or expired token"
                             ELSE IF code = 404 THEN "Could not fetch quote" ELSE ""])
  /\ UNCHANGED <<ledger, opening, identity, lock, olock>>

\* login: the user row was found and is active.
login_may_enter(u) == u \in Users /\ is_active[u]

\* POST /auth/login arrives: SELECT the user by email; 401 without an active
\* row; a wrong password is audited, committed and answered 401.
login_start(r, u, password) ==
  LET ok == login_may_enter(u)
      match == ok /\ verify_password(password_hash[u], password)
      failed_audit == [user_id |-> u, action |-> "login_failed", table_name |-> "users",
                       record_id |-> u, old_values |-> "None",
                       new_values |-> [email |-> u, reason |-> "wrong_password"]]
  IN
  /\ Arrive(r, [Idle EXCEPT !.op = "login", !.actor = u, !.password = password,
                  !.pc = IF match THEN "begin" ELSE "done",
                  !.code = IF match THEN 0 ELSE 401,
                  !.detail = IF match THEN "" ELSE "invalid credentials"])
  /\ audit' = IF ok /\ ~match THEN Append(audit, failed_audit) ELSE audit
  /\ UNCHANGED <<trading, is_active, password_hash, refresh_tokens,
                 password_reset_tokens, issued, now>>

\* The rest of login: a fresh refresh token, its row and the login_success
\* audit row are committed; the raw token goes into the cookie.
login_commit(r) ==
  LET q == req[r]
      raw_refresh == issued + 1
      refresh_record == [token |-> hash_token(raw_refresh), user_id |-> q.actor,
                         expires_at |-> now + RefreshTokenHours]
      audit_row == [user_id |-> q.actor, action |-> "login_success", table_name |-> "users",
                    record_id |-> q.actor, old_values |-> "None",
                    new_values |-> [email |-> q.actor]]
  IN
  /\ q.op = "login" /\ q.pc = "begin"
  /\ issued' = raw_refresh
  /\ refresh_tokens' = refresh_tokens \cup {refresh_record}
  /\ audit' = Append(audit, audit_row)
  /\ req' = [Respond(r, 200, "") EXCEPT ![r].cookie = raw_refresh]
  /\ UNCHANGED <<trading, is_active, password_hash, password_reset_tokens, now, nreq>>

\* POST /auth/refresh arrives: 401 without a cookie, without a row for its
\* digest, or with an expired row (which is deleted).
refresh_access_token_start(r, raw_token) ==
  LET record == TokenRecord(refresh_tokens, hash_token(raw_token))
      missing == raw_token = NoCookie
      unknown == record = NoRecord
      expired == record.expires_at < now
      detail == IF missing THEN "refresh token missing"
                ELSE IF unknown THEN "invalid refresh token"
                ELSE IF expired THEN "refresh token expired" ELSE ""
  IN
  /\ Arrive(r, [Idle EXCEPT !.op = "refresh", !.token = raw_token,
                  !.record = IF missing THEN NoRecord ELSE record,
                  !.actor = IF missing \/ unknown THEN "" ELSE record.user_id,
                  !.pc = IF detail = "" THEN "begin" ELSE "done",
                  !.code = IF detail = "" THEN 0 ELSE 401,
                  !.detail = detail])
  /\ refresh_tokens' = IF ~missing /\ ~unknown /\ expired
                       THEN refresh_tokens \ {record}
                       ELSE refresh_tokens
  /\ UNCHANGED <<trading, audit, is_active, password_hash, password_reset_tokens,
                 issued, now>>

\* SELECT the user of the token: without an active user the row is deleted
\* and the answer is 401.
refresh_access_token_user(r) ==
  LET q == req[r] IN
  /\ q.op = "refresh" /\ q.pc = "begin"
  /\ IF q.record.user_id \in Users /\ is_active[q.record.user_id]
     THEN /\ req' = [req EXCEPT ![r].pc = "locked"]
          /\ refresh_tokens' = refresh_tokens
     ELSE /\ req' = Respond(r, 401, "user not found or inactive")
          /\ refresh_tokens' = refresh_tokens \ {q.record}
  /\ UNCHANGED <<trading, audit, is_active, password_hash, password_reset_tokens,
                 issued, now, nreq>>

\* The DELETE of the row read before: a DELETE that matches no row any more
\* is a warning of the ORM, not an error.
refresh_row_deleted(record) == TRUE

\* Rotate: DELETE the old row, INSERT a fresh one, COMMIT, set the cookie.
refresh_access_token_commit(r) ==
  LET q == req[r]
      raw_refresh_new == issued + 1
      new_refresh_record == [token |-> hash_token(raw_refresh_new),
                             user_id |-> q.record.user_id,
                             expires_at |-> now + RefreshTokenHours]
  IN
  /\ q.op = "refresh" /\ q.pc = "locked"
  /\ IF refresh_row_deleted(q.record)
     THEN /\ issued' = raw_refresh_new
          /\ refresh_tokens' = (refresh_tokens \ {q.record}) \cup {new_refresh_record}
          /\ req' = [Respond(r, 200, "") EXCEPT ![r].cookie = raw_refresh_new]
     ELSE /\ req' = Respond(r, 500, "StaleDataError")
          /\ UNCHANGED <<issued, refresh_tokens>>
  /\ UNCHANGED <<trading, audit, is_active, password_hash, password_reset_tokens,
                 now, nreq>>

\* POST /auth/forgot-password arrives: SELECT the user by email; without an
\* active row the answer is the same 200 and nothing is stored.
forgot_password_start(r, u) ==
  LET ok == u \in Users /\ is_active[u] IN
  /\ Arrive(r, [Idle EXCEPT !.op = "forgot_password", !.actor = u,
                  !.pc = IF ok THEN "begin" ELSE "done",
                  !.code = IF ok THEN 0 ELSE 200])
  /\ UNCHANGED <<ledger, opening, identity, lock, olock>>

\* The rest of forgot_password: the row of a fresh token is committed and
\* the raw token mailed to the user.
forgot_password_commit(r) ==
  LET q == req[r]
      raw_token == issued + 1
      reset_record == [token |-> hash_token(raw_token), user_id |-> q.actor,
                       expires_at |-> now + ResetTokenHours, used |-> FALSE]
  IN
  /\ q.op = "forgot_password" /\ q.pc = "begin"
  /\ issued' = raw_token
  /\ password_reset_tokens' = password_reset_tokens \cup {reset_record}
  /\ req' = [Respond(r, 200, "") EXCEPT ![r].cookie = raw_token]
  /\ UNCHANGED <<trading, audit, is_active, password_hash, refresh_tokens, now, nreq>>

\* reset_password: the row read is neither used nor expired.
reset_token_usable(record) == ~(record.used \/ record.expires_at < now)

\* POST /auth/reset-password arrives: SELECT the row of the token's digest;
\* 400 without a row, or with one that is used or expired.
reset_password_start(r, raw_token, new_password) ==
  LET record == TokenRecord(password_reset_tokens, hash_token(raw_token))
      ok == record # NoRecord /\ reset_token_usable(record)
  IN
  /\ Arrive(r, [Idle EXCEPT !.op = "reset_password", !.token = raw_token,
                  !.record = record, !.password = new_password,
                  !.actor = record.user_id,
                  !.pc = IF ok THEN "begin" ELSE "done",
                  !.code = IF ok THEN 0 ELSE 400,
                  !.detail = IF ok THEN "" ELSE "Invalid or expired reset token."])
  /\ UNCHANGED <<ledger, opening, identity, lock, olock>>

\* SELECT the user of the token: 400 without an active user.
reset_password_user(r) ==
  LET q == req[r] IN
  /\ q.op = "reset_password" /\ q.pc = "begin"
  /\ req' = IF q.record.user_id \in Users /\ is_active[q.record.user_id]
            THEN [req EXCEPT ![r].pc = "locked"]
            ELSE Respond(r, 400, "Invalid or expired reset token.")
  /\ UNCHANGED <<ledger, opening, identity, lock, olock, nreq>>

\* The rest of reset_password: UPDATE the user's password_hash and the row's
\* used flag in one COMMIT.
reset_password_commit(r) ==
  LET q == req[r] IN
  /\ q.op = "reset_password" /\ q.pc = "locked"
  /\ password_hash' = [password_hash EXCEPT ![q.record.user_id] = hash_password(q.password)]
  /\ password_reset_tokens' =
       {IF t.token = q.record.token THEN [t EXCEPT !.used = TRUE] ELSE t :
          t \in password_reset_tokens}
  /\ req' = Respond(r, 200, "Password updated successfully.")
  /\ UNCHANGED <<trading, audit, is_active, refresh_tokens, issued, now, nreq>>

\* Time passes.
pass_time(hours) ==
  /\ now + hours <= MaxClock
  /\ now' = now + hours
  /\ UNCHANGED <<ledger, opening, lock, olock, req, nreq, account_status, is_active,
                 password_hash, refresh_tokens, password_reset_tokens, issued>>

\* ------------------------------------------------------------------ admin

\* ADMIN_EMAILS: the caller get_current_admin lets through.
Admins == {"admin"}

\* Session.begin() called on a session that has already executed a SELECT:
\* InvalidRequestError where that SELECT has begun the session's transaction
\* (TRUE), the block is entered and committed otherwise (FALSE).
SessionBeginRaises == BOOLEAN

\* _toggle_account_status: SELECT the account FOR UPDATE (404 without a row),
\* set its status, add the AuditLog row, db.begin() block, refresh.
toggle_account_status(r, admin, account_id, new_status, action, raises) ==
  LET found == account_id \in Accounts
      audit_row == [user_id |-> admin, action |-> action, table_name |-> "accounts",
                    record_id |-> account_id,
                    old_values |-> [status |-> account_status[account_id]],
                    new_values |-> [status |-> new_status]]
      code == IF admin \notin Admins THEN 403 ELSE IF ~found THEN 404
              ELSE IF raises THEN 500 ELSE 200
      detail == IF admin \notin Admins THEN "admin privileges required"
                ELSE IF ~found THEN "account not found"
                ELSE IF raises THEN "InvalidRequestError" ELSE ""
  IN
  /\ (admin \in Admins /\ found) => LockFree(r, account_id)
  /\ Arrive(r, [Idle EXCEPT !.op = action, !.actor = admin, !.account = account_id,
                  !.pc = "done", !.code = code, !.detail = detail])
  /\ IF code = 200
     THEN /\ account_status' = [account_status EXCEPT ![account_id] = new_status]
          /\ audit' = Append(audit, audit_row)
     ELSE UNCHANGED <<account_status, audit>>
  /\ UNCHANGED <<balance, holdings, orders, transactions, opening, lock, olock,
                 is_active, password_hash, refresh_tokens, password_reset_tokens,
                 issued, now>>

\* POST /admin/accounts/{account_id}/lock
lock_account(r, admin, account_id, raises) ==
  toggle_account_status(r, admin, account_id, "locked", "account_lock", raises)

\* POST /admin/accounts/{account_id}/unlock
unlock_account(r, admin, account_id, raises) ==
  toggle_account_status(r, admin, account_id, "active", "account_unlock", raises)

\* _toggle_user_status: SELECT the user FOR UPDATE (404 without a row), set
\* is_active, add the AuditLog row, db.begin() block, refresh.
toggle_user_status(r, admin, user_id, new_status, action, raises) ==
  LET found == user_id \in Users
      audit_row == [user_id |-> admin, action |-> action, table_name |-> "users",
                    record_id |-> user_id,
                    old_values |-> [is_active |-> is_active[user_id]],
                    new_values |-> [is_active |-> new_status]]
      code == IF admin \notin Admins THEN 403 ELSE IF ~found THEN 404
              ELSE IF raises THEN 500 ELSE 200
      detail == IF admin \notin Admins THEN "admin privileges required"
                ELSE IF ~found THEN "user not found"
                ELSE IF raises THEN "InvalidRequestError" ELSE ""
  IN
  /\ Arrive(r, [Idle EXCEPT !.op = action, !.actor = admin, !.pc = "done",
                  !.code = code, !.detail = detail])
  /\ IF code = 200
     THEN /\ is_active' = [is_active EXCEPT ![user_id] = new_status]
          /\ audit' = Append(audit, audit_row)
     ELSE UNCHANGED <<is_active, audit>>
  /\ UNCHANGED <<trading, password_hash, refresh_tokens, password_reset_tokens,
                 issued, now>>

\* POST /admin/users/{user_id}/lock
lock_user(r, admin, user_id, raises) ==
  toggle_user_status(r, admin, user_id, FALSE, "user_lock", raises)

\* POST /admin/users/{user_id}/unlock
unlock_user(r, admin, user_id, raises) ==
  toggle_user_status(r, admin, user_id, TRUE, "user_unlock", raises)

\* -------------------------------------------------------------- portfolio

\* SELECT account WHERE user_id = ..: the accounts of a user.
AccountsOf(u) == {a \in Accounts : Owner(a) = u}

\* sum of f[x] over the x in S.
RECURSIVE SumOver(_, _)
SumOver(f, S) ==
  IF S = {} THEN 0
  ELSE LET x == CHOOSE y \in S : TRUE IN f[x] + SumOver(f, S \ {x})

\* positions_value_by_account[a]: quantity * current_price summed over the
\* holding rows read for account a (micro-cents).
positions_value_by_account(held, a) ==
  SumOver([s \in Securities |-> held[<<a, s>>].quantity * held[<<a, s>>].current_price],
          {s \in Securities : held[<<a, s>>].exists})

\* Field(max_digits=18, decimal_places=2) on a Decimal given in micro-cents:
\* accepted when it has at most two decimals, trailing zeros aside.
decimal_places_2(v) == v % QScale = 0

\* GET /portfolio/summary arrives: SELECT the caller's accounts; without any
\* the answer is the empty summary.
get_portfolio_summary_start(r, u) ==
  LET accounts == AccountsOf(u) IN
  /\ Arrive(r, [Idle EXCEPT !.op = "get_portfolio_summary", !.actor = u,
                  !.pc = IF accounts = {} THEN "done" ELSE "begin",
                  !.code = IF accounts = {} THEN 200 ELSE 0,
                  !.body = IF accounts = {}
                           THEN [accounts |-> <<>>, total_portfolio_value |-> 0]
                           ELSE [a \in accounts |-> balance[a]]])
  /\ UNCHANGED <<ledger, opening, identity, lock, olock>>

\* The rest of get_portfolio_summary: SELECT the holdings of those accounts,
\* add them up and build the AccountPortfolioSummary and PortfolioSummary
\* models, whose validation errors leave the handler as a 500.
get_portfolio_summary_respond(r) ==
  LET q == req[r]
      accounts == DOMAIN q.body
      account_summaries ==
        [a \in accounts |->
           [cash_balance |-> q.body[a] * QScale,
            positions_value |-> positions_value_by_account(holdings, a),
            total_value |-> q.body[a] * QScale + positions_value_by_account(holdings, a)]]
      total_portfolio_value ==
        SumOver([a \in accounts |-> account_summaries[a].total_value], accounts)
      valid == /\ \A a \in accounts :
                    /\ decimal_places_2(account_summaries[a].cash_balance)
                    /\ decimal_places_2(account_summaries[a].positions_value)
                    /\ decimal_places_2(account_summaries[a].total_value)
               /\ decimal_places_2(total_portfolio_value)
  IN
  /\ q.op = "get_portfolio_summary" /\ q.pc = "begin"
  /\ req' = IF valid
            THEN [Respond(r, 200, "") EXCEPT
                    ![r].body = [accounts |-> account_summaries,
                                 total_portfolio_value |-> total_portfolio_value]]
            ELSE [Respond(r, 500, "ValidationError") EXCEPT ![r].body = <<>>]
  /\ UNCHANGED <<ledger, opening, identity, lock, olock, nreq>>

\* ---------------------------------------------------------------- listings

\* No account_id query parameter.
NoFilter == "None"

\* The rows of a table a listing selects, oldest first: those whose account
\* passes the WHERE clause (is in keep).
RECURSIVE SelectRows(_, _, _)
SelectRows(table, keep, n) ==
  IF n = 0 THEN <<>>
  ELSE IF table[n].account_id \in keep
       THEN Append(SelectRows(table, keep, n - 1), table[n])
       ELSE SelectRows(table, keep, n - 1)

\* ORDER BY ... DESC: rows are stored in the order they were inserted.
Newest(rows) == [i \in 1..Len(rows) |-> rows[Len(rows) + 1 - i]]

\* LIMIT limit OFFSET offset.
Page(rows, limit, offset) ==
  SubSeq(rows, offset + 1, IF Len(rows) < offset + limit THEN Len(rows) ELSE offset + limit)

\* A listing filtered by the account_id parameter alone.
ListedAccount_filter_only(u, account_id, a) == account_id = NoFilter \/ a = account_id

\* JOIN accounts ... WHERE accounts.user_id = current_user.user_id, and the
\* optional AND account_id = :account_id.
ListedAccount(u, account_id, a) ==
  /\ a \in Accounts /\ Owner(a) = u
  /\ account_id = NoFilter \/ a = account_id

\* OrderOut.from_orm on a model whose Config sets orm_mode: the conversion is
\* made (FALSE), or refused because from_attributes is not set (TRUE).
FromOrmRaises == BOOLEAN

\* GET /orders: one SELECT, each row converted with OrderOut.from_orm.
list_orders(r, u, account_id, limit, offset, raises) ==
  LET keep == {a \in Accounts : ListedAccount(u, account_id, a)}
      rows == Page(Newest(SelectRows(orders, keep, Len(orders))), limit, offset)
      failed == rows # <<>> /\ raises
  IN
  /\ Arrive(r, [Idle EXCEPT !.op = "list_orders", !.actor = u, !.account = account_id,
                  !.pc = "done", !.code = IF failed THEN 500 ELSE 200,
                  !.detail = IF failed THEN "PydanticUserError" ELSE "",
                  !.body = IF failed THEN <<>> ELSE rows])
  /\ UNCHANGED <<ledger, opening, identity, lock, olock>>

\* GET /transactions: one SELECT, the rows are the response.
list_transactions(r, u, account_id) ==
  LET keep == {a \in Accounts : ListedAccount(u, account_id, a)}
      rows == Newest(SelectRows(transactions, keep, Len(transactions)))
  IN
  /\ Arrive(r, [Idle EXCEPT !.op = "list_transactions", !.actor = u,
                  !.account = account_id, !.pc = "done", !.code = 200,
                  !.body = rows])
  /\ UNCHANGED <<ledger, opening, identity, lock, olock>>

\* ---------------------------------------------------------------- session

\* AsyncSession.begin() on the request's session: a session on which a
\* statement has run has begun its transaction (autobegin), and begin()
\* raises InvalidRequestError when a transaction is already begun.
session_begin_raises(in_transaction) == in_transaction

\* A request with a bearer token whose subject is u reaches a route that
\* depends on get_db and get_current_user: get_db opens the session of the
\* request, on which nothing has run yet.
route_request(r, fields) ==
  /\ Arrive(r, [fields EXCEPT !.pc = "dependency", !.in_transaction = FALSE,
                  !.peers = History(r, fields.account).peers,
                  !.bal0 = History(r, fields.account).bal0,
                  !.ord0 = History(r, fields.account).ord0])
  /\ UNCHANGED <<ledger, opening, identity, lock, olock>>

\* POST /transactions/create with a valid body.
route_create_transaction(r, u, account, ttype, amount) ==
  /\ TransactionCreate_valid(ttype, amount)
  /\ route_request(r, [Idle EXCEPT !.op = "create_transaction", !.actor = u,
                         !.account = account, !.ttype = ttype, !.amount = amount])

\* POST /orders with a valid body.
route_place_order(r, u, account, security, order_type, side, quantity, price) ==
  /\ OrderCreate_valid(order_type, side, quantity, price)
  /\ route_request(r, [Idle EXCEPT !.op = "place_order", !.actor = u,
                         !.account = account, !.security = security,
                         !.payload_order_type = order_type, !.payload_side = side,
                         !.order_type = normalize_order_type(order_type),
                         !.side = normalize_side(side),
                         !.quantity = quantity, !.price = price])

\* POST /orders/{id}/cancel and POST /orders/{id}/execute.
route_cancel_order(r, u, oid) ==
  route_request(r, [Idle EXCEPT !.op = "cancel_order", !.actor = u, !.order_id = oid,
                      !.status0 = IF oid \in 1..Len(orders) THEN orders[oid].status ELSE ""])

route_execute_order(r, u, oid) ==
  route_request(r, [Idle EXCEPT !.op = "execute_order", !.actor = u, !.order_id = oid,
                      !.status0 = IF oid \in 1..Len(orders) THEN orders[oid].status ELSE ""])

\* The get_current_user dependency: SELECT the user on the session of the
\* request (the session begins its transaction), 401 without an active row.
get_current_user_query(r) ==
  LET q == req[r] IN
  /\ q.pc = "dependency"
  /\ req' = IF get_current_user(q.actor)
            THEN [req EXCEPT ![r].pc = "handler", ![r].in_transaction = TRUE]
            ELSE [Respond(r, 401, "user not found or inactive")
                    EXCEPT ![r].in_transaction = TRUE]
  /\ UNCHANGED <<ledger, opening, identity, lock, olock, nreq>>

\* What the handler checks itself before it opens its block.
handler_precheck(q) ==
  IF q.op = "create_transaction"
  THEN IF q.amount <= 0 THEN "amount must be positive" ELSE ""
  ELSE IF q.op = "place_order"
  THEN place_order_precheck(q.payload_order_type, q.payload_side, q.quantity, q.price)
  ELSE ""

\* The handler from its first line to `async with db.begin():`.
handler_begin(r) ==
  LET q == req[r]
      pre == handler_precheck(q)
  IN
  /\ q.pc = "handler"
  /\ req' = IF pre # "" THEN Respond(r, 400, pre)
            ELSE IF session_begin_raises(q.in_transaction)
            THEN Respond(r, 500, "InvalidRequestError")
            ELSE [req EXCEPT ![r].pc = "begin"]
  /\ UNCHANGED <<ledger, opening, identity, lock, olock, nreq>>

\* ---------------------------------------------------------- specification

\* Values the requests are drawn from: 0.01 and 5.00 of opening cash,
\* quantities 0.005 and 1 unit, prices 1.00 and 2.00, an amount of 1.00.
OpeningBalances == {1, 500}
Quantities == {5000, 1000000}
Prices == {100, 200}
Amounts == {100}

\* Accounts a caller who owns neither can name: one of another user, and one
\* that is in no row of the accounts table.
MissingAccount == "a9"
ForeignAccounts == {"a1", MissingAccount}

\* One order id that does not exist yet can always be named.
OrderIds == 1..(Len(orders) + 1)

Init ==
  /\ opening \in {[a \in Accounts |-> IF a = "a1" THEN b ELSE 500] : b \in OpeningBalances}
  /\ balance = opening
  /\ holdings = [k \in Accounts \X Securities |-> NoHolding]
  /\ orders = <<>>
  /\ transactions = <<>>
  /\ audit = <<>>
  /\ lock = [a \in Accounts |-> NoReq]
  /\ olock = [r \in Requests |-> 0]
  /\ req = [r \in Requests |-> Idle]
  /\ nreq = 0
  /\ account_status = [a \in Accounts |-> "active"]
  /\ is_active = [u \in Users |-> TRUE]
  /\ password_hash = [u \in Users |-> hash_password(InitialPassword)]
  /\ refresh_tokens = {}
  /\ password_reset_tokens = {}
  /\ issued = 0
  /\ now = 0

\* The owner u1 works on account a1; u2 probes it, and an account that does
\* not exist, with requests of each kind.
Next ==
  \/ \E r \in Requests, t \in {"deposit", "withdrawal"}, m \in Amounts :
       create_transaction_start(r, "u1", "a1", t, m)
  \/ \E r \in Requests, a \in ForeignAccounts, m \in Amounts :
       create_transaction_start(r, "u2", a, "deposit", m)
  \/ \E r \in Requests : create_transaction_lock(r)
  \/ \E r \in Requests : create_transaction_commit(r)
  \/ \E r \in Requests, s \in Securities,
        t \in {"market", "limit"}, d \in {"buy", "sell"},
        n \in Quantities, p \in Prices :
       place_order_start(r, "u1", "a1", s, t, d, n, p)
  \/ \E r \in Requests, a \in ForeignAccounts, s \in Securities,
        t \in {"market", "limit"} :
       place_order_start(r, "u2", a, s, t, "buy", 1000000, 100)
  \/ \E r \in Requests : place_order_limit(r)
  \/ \E r \in Requests : place_order_lock(r)
  \/ \E r \in Requests : place_order_commit(r)
  \/ \E r \in Requests, u \in Users, o \in OrderIds : cancel_order_start(r, u, o)
  \/ \E r \in Requests : cancel_order_lock(r)
  \/ \E r \in Requests : cancel_order_commit(r)
  \/ \E r \in Requests, u \in Users, o \in OrderIds : execute_order_start(r, u, o)
  \/ \E r \in Requests : execute_order_lock(r)
  \/ \E r \in Requests : execute_order_commit(r)

Spec == Init /\ [][Next]_vars

\* ------------------------------------------- specification: request input

\* Requests issued in one behaviour of SpecInput.
MaxProbes == 2

\* Raw request bodies: each is a well-formed order or transaction with at
\* most one field replaced by a value the documentation calls invalid or by
\* another spelling of a valid one.
RawSides == {"BUY", "Buy", "hold", ""}
RawOrderTypes == {"LIMIT", "stop", ""}
RawQuantities == {0, -1000000}
RawPrices == {0, -100}
RawTransactionTypes == {"deposit", "withdrawal", "transfer"}
RawAmounts == {-100, 0, 100}

\* <<order_type, side, quantity, price>> of a POST /orders body.
OrderPayloads ==
  LET types == {"market", "limit"} IN
  UNION {
    {<<t, d, 1000000, 100>> : t \in types, d \in {"buy", "sell"}},
    {<<t, d, 1000000, 100>> : t \in types, d \in RawSides},
    {<<t, "buy", 1000000, 100>> : t \in RawOrderTypes},
    {<<t, "buy", n, 100>> : t \in types, n \in RawQuantities},
    {<<t, "buy", 1000000, p>> : t \in types, p \in RawPrices} }

\* u1 sends any of these bodies, naming its own account or one that does
\* not exist.
NextInput ==
  \/ \E r \in Requests, a \in {"a1", MissingAccount},
        t \in RawTransactionTypes, m \in RawAmounts :
       /\ nreq < MaxProbes
       /\ create_transaction_start(r, "u1", a, t, m)
  \/ \E r \in Requests : create_transaction_lock(r)
  \/ \E r \in Requests : create_transaction_commit(r)
  \/ \E r \in Requests, a \in {"a1", MissingAccount}, s \in Securities,
        b \in OrderPayloads :
       /\ nreq < MaxProbes
       /\ place_order_start(r, "u1", a, s, b[1], b[2], b[3], b[4])
  \/ \E r \in Requests : place_order_limit(r)
  \/ \E r \in Requests : place_order_lock(r)
  \/ \E r \in Requests : place_order_commit(r)

SpecInput == Init /\ [][NextInput]_vars

\* ------------------------------------------ specification: two accounts

\* accounts.user_id read the other way: the account of each user.
OwnAccount(u) == IF u = "u1" THEN "a1" ELSE "a2"

\* Each user works on its own account, with orders of one unit at 1.00.
NextAccounts ==
  \/ \E r \in Requests, u \in Users, t \in {"deposit", "withdrawal"}, m \in Amounts :
       create_transaction_start(r, u, OwnAccount(u), t, m)
  \/ \E r \in Requests : create_transaction_lock(r)
  \/ \E r \in Requests : create_transaction_commit(r)
  \/ \E r \in Requests, u \in Users, s \in Securities,
        t \in {"market", "limit"}, d \in {"buy", "sell"} :
       place_order_start(r, u, OwnAccount(u), s, t, d, 1000000, 100)
  \/ \E r \in Requests : place_order_limit(r)
  \/ \E r \in Requests : place_order_lock(r)
  \/ \E r \in Requests : place_order_commit(r)
  \/ \E r \in Requests, u \in Users, o \in OrderIds : cancel_order_start(r, u, o)
  \/ \E r \in Requests : cancel_order_lock(r)
  \/ \E r \in Requests : cancel_order_commit(r)
  \/ \E r \in Requests, u \in Users, o \in OrderIds : execute_order_start(r, u, o)
  \/ \E r \in Requests : execute_order_lock(r)
  \/ \E r \in Requests : execute_order_commit(r)

SpecAccounts == Init /\ [][NextAccounts]_vars

\* -------------------------------------------- specification: two ledgers

\* u1 deposits, places market orders of either quantity at either price and
\* limit orders of one unit, and executes them, on a1; u2 deposits and buys
\* one unit at 1.00 on a2.
NextLedgers ==
  \/ \E r \in Requests, u \in Users, m \in Amounts :
       create_transaction_start(r, u, OwnAccount(u), "deposit", m)
  \/ \E r \in Requests : create_transaction_lock(r)
  \/ \E r \in Requests : create_transaction_commit(r)
  \/ \E r \in Requests, s \in Securities, d \in {"buy", "sell"}, n \in Quantities,
        p \in Prices :
       place_order_start(r, "u1", "a1", s, "market", d, n, p)
  \/ \E r \in Requests, s \in Securities, d \in {"buy", "sell"}, p \in Prices :
       place_order_start(r, "u1", "a1", s, "limit", d, 1000000, p)
  \/ \E r \in Requests, s \in Securities :
       place_order_start(r, "u2", "a2", s, "market", "buy", 1000000, 100)
  \/ \E r \in Requests : place_order_limit(r)
  \/ \E r \in Requests : place_order_lock(r)
  \/ \E r \in Requests : place_order_commit(r)
  \/ \E r \in Requests, o \in OrderIds : execute_order_start(r, "u1", o)
  \/ \E r \in Requests : execute_order_lock(r)
  \/ \E r \in Requests : execute_order_commit(r)

SpecLedgers == Init /\ [][NextLedgers]_vars

\* ------------------------------------------- specification: termination

\* The client goes away while request r is being served: the handler is
\* cancelled, the session of get_db is closed, its transaction rolled back.
abandon(r) ==
  /\ InFlight(r)
  /\ Release(r)
  /\ Rollback(r, 499, "client disconnected")
  /\ UNCHANGED <<opening, identity, nreq>>

\* u1 works on its account with orders of one unit at 1.00; any request in
\* flight may be abandoned.
NextLive ==
  \/ \E r \in Requests, t \in {"deposit", "withdrawal"}, m \in Amounts :
       create_transaction_start(r, "u1", "a1", t, m)
  \/ \E r \in Requests : create_transaction_lock(r)
  \/ \E r \in Requests : create_transaction_commit(r)
  \/ \E r \in Requests, s \in Securities,
        t \in {"market", "limit"}, d \in {"buy", "sell"} :
       place_order_start(r, "u1", "a1", s, t, d, 1000000, 100)
  \/ \E r \in Requests : place_order_limit(r)
  \/ \E r \in Requests : place_order_lock(r)
  \/ \E r \in Requests : place_order_commit(r)
  \/ \E r \in Requests, o \in OrderIds : cancel_order_start(r, "u1", o)
  \/ \E r \in Requests : cancel_order_lock(r)
  \/ \E r \in Requests : cancel_order_commit(r)
  \/ \E r \in Requests, o \in OrderIds : execute_order_start(r, "u1", o)
  \/ \E r \in Requests : execute_order_lock(r)
  \/ \E r \in Requests : execute_order_commit(r)
  \/ \E r \in Requests : abandon(r)

\* The statement of request r that may wait for a row lock.
AcquireLock(r) ==
  \/ create_transaction_lock(r)
  \/ place_order_limit(r)
  \/ place_order_lock(r)
  \/ cancel_order_lock(r)
  \/ execute_order_lock(r)

\* The rest of the unit of work of request r.
FinishWork(r) ==
  \/ create_transaction_commit(r)
  \/ place_order_commit(r)
  \/ cancel_order_commit(r)
  \/ execute_order_commit(r)

\* The event loop runs every handler that can run; the store grants a row
\* lock to the transactions waiting for it in turn.
SpecLive ==
  /\ Init /\ [][NextLive]_vars
  /\ \A r \in Requests : SF_vars(AcquireLock(r)) /\ WF_vars(FinishWork(r))

\* --------------------------------------- specification: reference numbers

\* The reference_number of a request: none, or one of two wire ids.
References == {NoReference, 7001, 7002}

\* Deposits and withdrawals of both users on their own accounts, with and
\* without a reference number.
NextReference ==
  \/ \E r \in Requests, u \in Users, t \in {"deposit", "withdrawal"}, m \in Amounts,
        n \in References :
       create_transaction_request(r, u, OwnAccount(u), t, m, n)
  \/ \E r \in Requests : create_transaction_lock(r)
  \/ \E r \in Requests : create_transaction_commit(r)

SpecReference == Init /\ [][NextReference]_vars

\* ------------------------------------------ specification: request session

\* The subject of a token whose user row is gone.
DeletedUser == "u0"

\* Requests of each kind come in through the routes with their
\* dependencies, from the owner of a1, from u2 and with the token of a
\* deleted user.
NextSession ==
  \/ \E r \in Requests, u \in Users \cup {DeletedUser}, t \in {"deposit", "withdrawal"},
        m \in Amounts :
       route_create_transaction(r, u, "a1", t, m)
  \/ \E r \in Requests, u \in Users \cup {DeletedUser}, s \in Securities,
        t \in {"market", "limit"}, d \in {"buy", "sell"}, n \in Quantities :
       route_place_order(r, u, "a1", s, t, d, n, 100)
  \/ \E r \in Requests, u \in Users \cup {DeletedUser}, o \in OrderIds :
       route_cancel_order(r, u, o)
  \/ \E r \in Requests, u \in Users \cup {DeletedUser}, o \in OrderIds :
       route_execute_order(r, u, o)
  \/ \E r \in Requests : get_current_user_query(r)
  \/ \E r \in Requests : handler_begin(r)

SpecSession == Init /\ [][NextSession]_vars

\* ------------------------------------------- specification: locked account

\* u1 works on its account a1 with orders of one unit at 1.00 and amounts
\* of 1.00, while the admin locks and unlocks that account.
NextAdmin ==
  \/ \E r \in Requests, t \in {"deposit", "withdrawal"}, m \in Amounts :
       create_transaction_start(r, "u1", "a1", t, m)
  \/ \E r \in Requests : create_transaction_lock(r)
  \/ \E r \in Requests : create_transaction_commit(r)
  \/ \E r \in Requests, s \in Securities,
        t \in {"market", "limit"}, d \in {"buy", "sell"} :
       place_order_start(r, "u1", "a1", s, t, d, 1000000, 100)
  \/ \E r \in Requests : place_order_limit(r)
  \/ \E r \in Requests : place_order_lock(r)
  \/ \E r \in Requests : place_order_commit(r)
  \/ \E r \in Requests, o \in OrderIds : execute_order_start(r, "u1", o)
  \/ \E r \in Requests : execute_order_lock(r)
  \/ \E r \in Requests : execute_order_commit(r)
  \/ \E r \in Requests, a \in Admins, x \in SessionBeginRaises :
       lock_account(r, a, "a1", x)
  \/ \E r \in Requests, a \in Admins, x \in SessionBeginRaises :
       unlock_account(r, a, "a1", x)

SpecAdmin == Init /\ [][NextAdmin]_vars

\* ------------------------------------------------- specification: sessions

\* What u1 types and presents: its password or another one, the raw tokens
\* handed out so far, no cookie, or a token that was never issued.
Passwords == {InitialPassword, "secret1"}
UnknownToken == 99
PresentedTokens == (0..issued) \cup {UnknownToken}

\* Lengths of time that pass at once, in hours.
Hours == {100, 200}

\* u1 logs in, refreshes, asks for and redeems password resets, and makes
\* deposits and asks for quotes with its access token, while the admin locks
\* and unlocks the user and time passes.
NextAuth ==
  \/ \E r \in Requests, p \in Passwords : login_start(r, "u1", p)
  \/ \E r \in Requests : login_commit(r)
  \/ \E r \in Requests, t \in PresentedTokens : refresh_access_token_start(r, t)
  \/ \E r \in Requests : refresh_access_token_user(r)
  \/ \E r \in Requests : refresh_access_token_commit(r)
  \/ \E r \in Requests : forgot_password_start(r, "u1")
  \/ \E r \in Requests : forgot_password_commit(r)
  \/ \E r \in Requests, t \in PresentedTokens, p \in Passwords :
       reset_password_start(r, t, p)
  \/ \E r \in Requests : reset_password_user(r)
  \/ \E r \in Requests : reset_password_commit(r)
  \/ \E r \in Requests, m \in Amounts :
       authenticated(r, "u1", create_transaction_start(r, "u1", "a1", "deposit", m))
  \/ \E r \in Requests : create_transaction_lock(r)
  \/ \E r \in Requests : create_transaction_commit(r)
  \/ \E r \in Requests, f \in BOOLEAN : get_quote(r, "u1", f)
  \/ \E r \in Requests, a \in Admins, x \in SessionBeginRaises : lock_user(r, a, "u1", x)
  \/ \E r \in Requests, a \in Admins, x \in SessionBeginRaises : unlock_user(r, a, "u1", x)
  \/ \E h \in Hours : pass_time(h)

SpecAuth == Init /\ [][NextAuth]_vars

\* ------------------------------------------------- specification: reading

\* A user who owns no account.
NoAccountUser == "u3"

\* The account_id parameter of a listing: absent, an account of either user,
\* or one that does not exist; and its page.
ListFilters == {NoFilter, MissingAccount} \cup Accounts
PageLimits == {1, 50}
PageOffsets == {0, 1}

\* Each user trades on its own account with market orders and moves cash,
\* while the users, and one without an account, ask for their summaries and
\* the users list orders and transactions.
NextRead ==
  \/ \E r \in Requests, u \in Users, s \in Securities, n \in Quantities, p \in Prices :
       place_order_start(r, u, OwnAccount(u), s, "market", "buy", n, p)
  \/ \E r \in Requests : place_order_lock(r)
  \/ \E r \in Requests : place_order_commit(r)
  \/ \E r \in Requests, u \in Users \cup {NoAccountUser} :
       get_portfolio_summary_start(r, u)
  \/ \E r \in Requests : get_portfolio_summary_respond(r)
  \/ \E r \in Requests, u \in Users, m \in Amounts :
       create_transaction_start(r, u, OwnAccount(u), "deposit", m)
  \/ \E r \in Requests : create_transaction_lock(r)
  \/ \E r \in Requests : create_transaction_commit(r)
  \/ \E r \in Requests, u \in Users, a \in ListFilters, n \in PageLimits,
        k \in PageOffsets, x \in FromOrmRaises :
       list_orders(r, u, a, n, k, x)
  \/ \E r \in Requests, u \in Users, a \in ListFilters : list_transactions(r, u, a)

SpecRead == Init /\ [][NextRead]_vars

\* ------------------------------------------------------------- properties

\* Request r leaves its locked unit of work in this step.
Finishes(r) == req[r].pc = "locked" /\ req'[r].pc = "done"

\* Request r is answered in this step (from any point of the handler).
Answered(r) == InFlight(r) /\ req'[r].pc = "done"

Succeeded(r) == req[r].pc = "done" /\ req[r].code \in {200, 201}

\* The locked request q would take more cash than the committed balance holds.
WouldOverdraw(q) ==
  \/ /\ q.op = "create_transaction" /\ q.ttype = "withdrawal"
     /\ balance[q.account] < q.amount
  \/ /\ q.op = "place_order" /\ q.side = "buy"
     /\ balance[q.account] * QScale < q.quantity * q.price
  \/ /\ q.op = "execute_order" /\ q.side = "buy"
     /\ orders[q.order_id].status = "pending"
     /\ balance[q.account] * QScale < q.quantity * q.price

\* C1: every committed balance is >= 0, and a withdrawal or buy that would
\* take the balance below zero is answered 400 and changes nothing.
C1_BalanceNonNegative ==
  /\ [](\A a \in Accounts : balance[a] >= 0)
  /\ [][\A r \in Requests :
          (Finishes(r) /\ WouldOverdraw(req[r]))
            => (req'[r].code = 400 /\ UNCHANGED ledger)]_vars

\* C1 witness: an overdrawing request has been rejected for lack of funds.
C1_Witness ==
  \E r \in Requests :
    /\ req[r].pc = "done" /\ req[r].code = 400
    /\ req[r].detail \in {"insufficient funds", "insufficient funds for execution"}
    /\ balance[req[r].account] = req[r].cash

\* Request r is a market buy that went through its accounting and is answered.
MarketBuyDone(r) ==
  /\ req[r].pc = "done" /\ req[r].op = "place_order"
  /\ req[r].order_type = "market" /\ req[r].side = "buy"
  /\ req[r].code \in {201, 400}

\* Two answered market buys on one account that were in flight together:
\* `first` was in flight when `second` arrived, and the balance b (cents) that
\* was committed then covers either notional but not both.
ConcurrentBuys(first, second) ==
  /\ first # second
  /\ MarketBuyDone(first) /\ MarketBuyDone(second)
  /\ req[first].account = req[second].account
  /\ first \in req[second].peers
  /\ LET b == req[second].bal0 * QScale
         n1 == Notional(req[first].quantity, req[first].price)
         n2 == Notional(req[second].quantity, req[second].price)
     IN n1 <= b /\ n2 <= b /\ n1 + n2 > b

\* C2: of two concurrent market buys, each affordable but not both, exactly
\* one is filled and the other is refused for lack of funds; the balance is
\* the initial one less the notional of the filled order, and one order row
\* is added.
C2_ExactlyOneBuy ==
  \A first, second \in Requests :
    ConcurrentBuys(first, second) =>
      \E w \in {first, second} :
        LET l == IF w = first THEN second ELSE first IN
        /\ req[w].code = 201
        /\ req[l].code = 400 /\ req[l].detail = "insufficient funds"
        /\ balance[req[w].account] * QScale
             = req[second].bal0 * QScale - Notional(req[w].quantity, req[w].price)
        /\ Len(orders) = req[second].ord0 + 1

\* Request r reads the balance under the account lock.
ReadsBalance(r) == req[r].op \in {"create_transaction", "place_order", "execute_order"}

\* C3: operations on one account are serialised by its row lock: a locked
\* unit of work is the only one on its account, and the balance it read under
\* the lock is the committed balance until it commits or rolls back, so no
\* update is lost and no stale balance is used.
C3_Serialized ==
  /\ \A a \in Accounts : lock[a] # NoReq => req[lock[a]].pc = "locked"
  /\ \A r \in Requests :
       req[r].pc = "locked" =>
         /\ lock[req[r].account] = r
         /\ ReadsBalance(r) => req[r].cash = balance[req[r].account]

\* C3 witness: a request that waited for the lock of an earlier one reads,
\* under the lock, the balance the earlier one committed.
C3_Witness ==
  \E r, s \in Requests :
    /\ r # s /\ r \in req[s].peers
    /\ Succeeded(r) /\ ReadsBalance(r) /\ req[r].account = req[s].account
    /\ req[s].pc = "locked" /\ ReadsBalance(s)
    /\ req[s].cash # req[s].bal0
    /\ req[s].cash = balance[req[s].account]

\* C4: a rejected create_transaction, market place_order or execute_order
\* commits nothing: balance, holdings, orders, transactions and audit log
\* change only in a step in which a request is answered 200 or 201.
C4_RejectionIsAtomic ==
  [][ledger' # ledger =>
       \E r \in Requests : Answered(r) /\ req'[r].code \in {200, 201}]_vars

\* C4 witness: requests have been rejected under the lock for lack of funds
\* and for a missing position.
C4_Witness ==
  \E r, s \in Requests :
    /\ req[r].pc = "done" /\ req[r].code = 400 /\ req[r].detail = "insufficient funds"
    /\ req[s].pc = "done" /\ req[s].code = 400 /\ req[s].detail = "no position to sell"

Terminal(o) == o.status \in {"filled", "cancelled"}

\* C5: an order moves only pending -> filled or pending -> cancelled, and a
\* filled or cancelled order row never changes again.
C5_TerminalOrdersFrozen ==
  [][\A i \in 1..Len(orders) :
       /\ orders'[i].status \in {"pending", "filled", "cancelled"}
       /\ Terminal(orders[i]) => orders'[i] = orders[i]]_vars

\* C5 witness: a cancel_order or execute_order has been answered on an order
\* that was already filled or cancelled.
C5_Witness ==
  \E r \in Requests :
    /\ req[r].pc = "done" /\ req[r].op \in {"cancel_order", "execute_order"}
    /\ req[r].code = 400 /\ req[r].ostatus \in {"filled", "cancelled"}
    /\ Terminal(orders[req[r].order_id])

\* C6: cancel_order or execute_order on the caller's own order that is not
\* pending is answered 400 (invalid state) and leaves the balance, the
\* holdings and the orders as they were, every time.
C6_NotPendingRejected ==
  [][\A r \in Requests :
       ( /\ Finishes(r)
         /\ req[r].op \in {"cancel_order", "execute_order"}
         /\ orders[req[r].order_id].status # "pending" )
       => /\ req'[r].code = 400
          /\ req'[r].detail = IF req[r].op = "cancel_order"
                              THEN "only pending orders can be cancelled"
                              ELSE "only pending orders can be executed"
          /\ UNCHANGED <<balance, holdings, orders>>]_vars

\* C6 witness: the same terminal order has been refused twice, once by
\* cancel_order and once by execute_order.
C6_Witness ==
  \E r, s \in Requests :
    /\ r # s /\ req[r].order_id = req[s].order_id
    /\ req[r].pc = "done" /\ req[r].op = "cancel_order" /\ req[r].code = 400
    /\ req[s].pc = "done" /\ req[s].op = "execute_order"
    /\ req[s].detail = "only pending orders can be executed"

\* The newest order row after the step.
NewOrder == orders'[Len(orders')]

\* Request r is a market buy under the lock whose notional the committed
\* balance covers.
AffordableMarketBuy(r) ==
  /\ req[r].op = "place_order" /\ req[r].order_type = "market" /\ req[r].side = "buy"
  /\ balance[req[r].account] * QScale >= Notional(req[r].quantity, req[r].price)

\* C7: a market buy of q at p on a balance >= q*p succeeds; the new balance
\* is the old one less q*p exactly; a first holding is created with quantity
\* q, average_cost p, current_price p; and a filled order row is inserted.
C7_MarketBuy ==
  [][\A r \in Requests :
       (Finishes(r) /\ AffordableMarketBuy(r)) =>
         LET q == req[r]
             key == <<q.account, q.security>>
         IN
         /\ req'[r].code = 201
         /\ balance'[q.account] * QScale
              = balance[q.account] * QScale - Notional(q.quantity, q.price)
         /\ ~holdings[key].exists =>
              holdings'[key] = [exists |-> TRUE, quantity |-> q.quantity,
                                average_cost |-> q.price, current_price |-> q.price]
         /\ Len(orders') = Len(orders) + 1
         /\ NewOrder.status = "filled"
         /\ NewOrder.filled_quantity = q.quantity
         /\ NewOrder.filled_price = q.price]_vars

\* Request r is a sell under the lock (market order, or a pending limit order
\* being executed) that the committed holding covers.
CoveredSell(r) ==
  /\ \/ req[r].op = "place_order" /\ req[r].order_type = "market"
     \/ req[r].op = "execute_order" /\ orders[req[r].order_id].status = "pending"
  /\ req[r].side = "sell"
  /\ holdings[<<req[r].account, req[r].security>>].exists
  /\ holdings[<<req[r].account, req[r].security>>].quantity >= req[r].quantity

\* C9: a successful sell of q at p against a holding of h >= q increases the
\* balance by q*p exactly; with q = h the holding row is deleted, with q < h
\* it keeps quantity h - q and takes current_price p.
C9_Sell ==
  [][\A r \in Requests :
       (Finishes(r) /\ CoveredSell(r)) =>
         LET q == req[r]
             key == <<q.account, q.security>>
             h == holdings[key]
         IN
         /\ req'[r].code \in {200, 201}
         /\ balance'[q.account] * QScale
              = balance[q.account] * QScale + Notional(q.quantity, q.price)
         /\ q.quantity = h.quantity => ~holdings'[key].exists
         /\ q.quantity < h.quantity =>
              holdings'[key] = [h EXCEPT !.quantity = h.quantity - q.quantity,
                                         !.current_price = q.price]]_vars

\* The filled orders of account a in security s, by order id.
FilledOrders(a, s) ==
  {i \in 1..Len(orders) :
     /\ orders[i].account_id = a /\ orders[i].security_id = s
     /\ orders[i].status = "filled"}

\* Exactly two orders of (a, s) are filled and both are buys: i and j are
\* the two buys on a position that did not exist before them.
TwoBuys(a, s, i, j) ==
  /\ FilledOrders(a, s) = {i, j} /\ i < j
  /\ orders[i].side = "buy" /\ orders[j].side = "buy"

TotalCost(i, j) ==
  Notional(orders[i].quantity, orders[i].price)
    + Notional(orders[j].quantity, orders[j].price)

TotalShares(i, j) == orders[i].quantity + orders[j].quantity

\* C8 as claimed: after two buys on a new position the holding has quantity
\* q1+q2 and its stored average_cost is exactly (q1*p1 + q2*p2)/(q1+q2).
C8_ExactAverageCost ==
  \A a \in Accounts, s \in Securities, i, j \in 1..Len(orders) :
    TwoBuys(a, s, i, j) =>
      LET h == holdings[<<a, s>>] IN
      /\ h.exists
      /\ h.quantity = TotalShares(i, j)
      /\ h.average_cost * TotalShares(i, j) = TotalCost(i, j)

\* C8 as amended: the stored average_cost is (q1*p1 + q2*p2)/(q1+q2) rounded
\* to the column's two decimals, that is within half a cent of it (and equal
\* to it when it is a whole number of cents).
C8_RoundedAverageCost ==
  \A a \in Accounts, s \in Securities, i, j \in 1..Len(orders) :
    TwoBuys(a, s, i, j) =>
      LET h == holdings[<<a, s>>]
          d == h.average_cost * TotalShares(i, j) - TotalCost(i, j)
      IN
      /\ h.exists
      /\ h.quantity = TotalShares(i, j)
      /\ -TotalShares(i, j) < 2 * d /\ 2 * d <= TotalShares(i, j)

\* C8 witness: two buys, one a market order and one an executed limit order,
\* have built a position whose exact average cost is not a whole cent.
C8_Witness ==
  \E a \in Accounts, s \in Securities, i, j \in 1..Len(orders) :
    /\ TwoBuys(a, s, i, j)
    /\ orders[i].order_type # orders[j].order_type
    /\ TotalCost(i, j) % TotalShares(i, j) # 0
    /\ holdings[<<a, s>>].exists

\* Request r is a sell under the lock: a market place_order, or the
\* execute_order of a sell order that is still pending.
SellUnderLock(r) ==
  /\ \/ req[r].op = "place_order" /\ req[r].order_type = "market"
     \/ req[r].op = "execute_order" /\ orders[req[r].order_id].status = "pending"
  /\ req[r].side = "sell"

\* C10: a sell with no holding in the security is rejected with the
\* no-position error, a sell of more than the holding's quantity with the
\* insufficient-quantity error; in both cases the balance is not credited,
\* the holding is unchanged and no order is created or filled.
C10_UncoveredSellRejected ==
  [][\A r \in Requests :
       (Finishes(r) /\ SellUnderLock(r)) =>
         LET q == req[r]
             h == holdings[<<q.account, q.security>>]
         IN
         /\ ~h.exists =>
              /\ req'[r].code = 400 /\ req'[r].detail = "no position to sell"
              /\ UNCHANGED <<balance, holdings, orders>>
         /\ (h.exists /\ h.quantity < q.quantity) =>
              /\ req'[r].code = 400
              /\ req'[r].detail = IF q.op = "place_order"
                                  THEN "insufficient quantity"
                                  ELSE "insufficient quantity for execution"
              /\ UNCHANGED <<balance, holdings, orders>>]_vars

\* C10 witness: the execution of a pending sell order has been refused for a
\* holding smaller than the order's quantity, and the holding is still there.
C10_Witness ==
  \E r \in Requests :
    /\ req[r].pc = "done" /\ req[r].op = "execute_order" /\ req[r].side = "sell"
    /\ req[r].code = 400 /\ req[r].detail = "insufficient quantity for execution"
    /\ holdings[<<req[r].account, req[r].security>>].exists
    /\ orders[req[r].order_id].status = "pending"

\* Request r, a limit order on an account of its caller, is answered in
\* this step.
LimitPlaced(r) ==
  /\ req[r].op = "place_order" /\ req[r].order_type = "limit"
  /\ req[r].pc = "begin" /\ req'[r].pc = "done"
  /\ req[r].account \in Accounts /\ Owner(req[r].account) = req[r].actor

\* C11: placing a limit order on an owned account inserts exactly one order,
\* pending, with filled_quantity 0 and filled_price null, and leaves the
\* balance and every holding unchanged, whether or not the balance or the
\* position could cover the order.
C11_LimitPlacement ==
  [][\A r \in Requests :
       LimitPlaced(r) =>
         /\ req'[r].code = 201
         /\ Len(orders') = Len(orders) + 1
         /\ SubSeq(orders', 1, Len(orders)) = orders
         /\ NewOrder.status = "pending"
         /\ NewOrder.filled_quantity = 0
         /\ NewOrder.filled_price = NullPrice
         /\ NewOrder.account_id = req[r].account
         /\ NewOrder.side = req[r].side
         /\ NewOrder.quantity = req[r].quantity
         /\ NewOrder.price = req[r].price
         /\ balance' = balance
         /\ holdings' = holdings]_vars

\* C11 witness: a limit buy the balance cannot pay for and a limit sell
\* without any position are both pending.
C11_Witness ==
  \E i, j \in 1..Len(orders) :
    /\ orders[i].status = "pending" /\ orders[i].side = "buy"
    /\ balance[orders[i].account_id] * QScale
         < Notional(orders[i].quantity, orders[i].price)
    /\ orders[j].status = "pending" /\ orders[j].side = "sell"
    /\ ~holdings[<<orders[j].account_id, orders[j].security_id>>].exists

\* Request r is the execution of a pending order, under the lock.
ExecutesPending(r) ==
  /\ req[r].op = "execute_order" /\ req[r].pc = "locked"
  /\ orders[req[r].order_id].status = "pending"

\* Request r is a market order under the lock.
MarketUnderLock(r) ==
  /\ req[r].op = "place_order" /\ req[r].pc = "locked"
  /\ req[r].order_type = "market"

\* C12: from the same balance and holding, executing a limit order
\* (side, q, p) gives the balance, the holding, the accept/reject decision
\* and the fill fields that a market order (side, q, p) gives, and a market
\* order gives those that the execution of such a limit order gives.
C12_LimitThenExecuteIsMarket ==
  [][\A r \in Requests :
       Finishes(r) =>
         LET q == req[r]
             key == <<q.account, q.security>>
         IN
         /\ ExecutesPending(r) =>
              LET o == orders[q.order_id]
                  m == place_order_accounting(o.side, o.quantity, o.price,
                                              balance[q.account], holdings[key])
              IN
              /\ (req'[r].code = 200) = m.ok
              /\ (req'[r].code # 200) => req'[r].code = 400
              /\ balance'[q.account] = m.balance
              /\ holdings'[key] = m.holding
              /\ m.ok => /\ orders'[q.order_id].status = "filled"
                         /\ orders'[q.order_id].filled_quantity = o.quantity
                         /\ orders'[q.order_id].filled_price = o.price
         /\ MarketUnderLock(r) =>
              LET e == execute_order_accounting(q.side, q.quantity, q.price,
                                                balance[q.account], holdings[key])
              IN
              /\ (req'[r].code = 201) = e.ok
              /\ (req'[r].code # 201) => req'[r].code = 400
              /\ balance'[q.account] = e.balance
              /\ holdings'[key] = e.holding
              /\ e.ok => /\ NewOrder.status = "filled"
                         /\ NewOrder.filled_quantity = q.quantity
                         /\ NewOrder.filled_price = q.price]_vars

\* C12 witness: a limit order that was executed and a market order of the
\* same side, quantity and price are both filled, and an execution has been
\* refused as well.
C12_Witness ==
  /\ \E i, j \in 1..Len(orders) :
       /\ orders[i].order_type = "limit" /\ orders[j].order_type = "market"
       /\ orders[i].status = "filled" /\ orders[j].status = "filled"
       /\ orders[i].side = orders[j].side
       /\ orders[i].quantity = orders[j].quantity
       /\ orders[i].price = orders[j].price
       /\ orders[i].filled_price = orders[j].filled_price
  /\ \E r \in Requests :
       /\ req[r].op = "execute_order" /\ req[r].pc = "done" /\ req[r].code = 200

\* C13: an execute_order on a pending order that lacks the funds, the
\* position or the quantity is refused with that specific error; the order
\* row (status pending, filled_quantity, filled_price, executed_at) and every
\* balance and holding stay as they were.
C13_RejectedExecutionKeepsPending ==
  [][\A r \in Requests :
       (Finishes(r) /\ ExecutesPending(r)) =>
         LET o == orders[req[r].order_id]
             h == holdings[<<o.account_id, o.security_id>>]
             short == /\ o.side = "buy"
                      /\ balance[o.account_id] * QScale < o.quantity * o.price
             bare == o.side = "sell" /\ ~h.exists
             thin == o.side = "sell" /\ h.exists /\ h.quantity < o.quantity
         IN
         /\ short => req'[r].detail = "insufficient funds for execution"
         /\ bare => req'[r].detail = "no position to sell"
         /\ thin => req'[r].detail = "insufficient quantity for execution"
         /\ (short \/ bare \/ thin) =>
              /\ req'[r].code = 400
              /\ orders' = orders
              /\ orders'[req[r].order_id].status = "pending"
              /\ balance' = balance
              /\ holdings' = holdings
         /\ req'[r].code # 200 => (short \/ bare \/ thin)]_vars

\* C13 witness: the execution of a limit buy was refused for lack of funds
\* and the order is still pending, never filled.
C13_Witness ==
  \E r \in Requests :
    /\ req[r].op = "execute_order" /\ req[r].pc = "done" /\ req[r].code = 400
    /\ req[r].detail = "insufficient funds for execution"
    /\ orders[req[r].order_id].status = "pending"
    /\ orders[req[r].order_id].filled_quantity = 0
    /\ orders[req[r].order_id].filled_price = NullPrice
    /\ orders[req[r].order_id].executed_at = "NULL"

\* C14: cancel_order on a pending order of the caller sets status cancelled
\* and a non-null cancelled_at and changes no balance and no holding; the
\* order stays cancelled, and every later execute_order on it fails with
\* the not-pending error and changes nothing.
C14_CancelThenExecuteFails ==
  [][/\ \A r \in Requests :
          (Finishes(r) /\ req[r].op = "cancel_order"
             /\ orders[req[r].order_id].status = "pending") =>
            /\ req'[r].code = 200
            /\ orders'[req[r].order_id].status = "cancelled"
            /\ orders'[req[r].order_id].cancelled_at # "NULL"
            /\ \A i \in 1..Len(orders) : i # req[r].order_id => orders'[i] = orders[i]
            /\ balance' = balance
            /\ holdings' = holdings
     /\ \A r \in Requests :
          (Finishes(r) /\ req[r].op = "execute_order"
             /\ orders[req[r].order_id].status = "cancelled") =>
            /\ req'[r].code = 400
            /\ req'[r].detail = "only pending orders can be executed"
            /\ UNCHANGED <<balance, holdings, orders>>
     /\ \A i \in 1..Len(orders) :
          orders[i].status = "cancelled" =>
            /\ orders'[i].status = "cancelled"
            /\ orders'[i].cancelled_at # "NULL"]_vars

\* C14 witness: an order was cancelled and a later execute_order on it has
\* been refused.
C14_Witness ==
  \E r \in Requests :
    /\ req[r].op = "execute_order" /\ req[r].pc = "done" /\ req[r].code = 400
    /\ orders[req[r].order_id].status = "cancelled"
    /\ orders[req[r].order_id].cancelled_at = "now"
    /\ orders[req[r].order_id].executed_at = "NULL"
    /\ balance = opening

\* The newest transaction row after the step.
NewTransaction == transactions'[Len(transactions')]

\* The step inserts exactly one transaction row, completed, of request r.
OneTransactionRow(r) ==
  /\ Len(transactions') = Len(transactions) + 1
  /\ SubSeq(transactions', 1, Len(transactions)) = transactions
  /\ NewTransaction.status = "completed"
  /\ NewTransaction.amount = req[r].amount
  /\ NewTransaction.account_id = req[r].account
  /\ NewTransaction.transaction_type = req[r].ttype

\* C15: on an owned account, a deposit sets the balance to old + amount, a
\* withdrawal with old >= amount to old - amount, a withdrawal with
\* old < amount is refused with insufficient funds and leaves the balance;
\* an accepted call inserts exactly one completed transaction row of that
\* amount, a rejected call none.
C15_CreateTransaction ==
  [][\A r \in Requests :
       /\ (Finishes(r) /\ req[r].op = "create_transaction") =>
            LET q == req[r]
                old == balance[q.account]
            IN
            /\ q.ttype = "deposit" =>
                 /\ req'[r].code = 200
                 /\ balance'[q.account] = old + q.amount
                 /\ OneTransactionRow(r)
            /\ (q.ttype = "withdrawal" /\ old >= q.amount) =>
                 /\ req'[r].code = 200
                 /\ balance'[q.account] = old - q.amount
                 /\ OneTransactionRow(r)
            /\ (q.ttype = "withdrawal" /\ old < q.amount) =>
                 /\ req'[r].code = 400
                 /\ req'[r].detail = "insufficient funds"
                 /\ balance' = balance
       /\ (Answered(r) /\ req[r].op = "create_transaction" /\ req'[r].code # 200) =>
            transactions' = transactions /\ balance' = balance]_vars

\* C15 witness: a withdrawal of the whole balance was accepted and left 0,
\* with its transaction row.
C15_Witness ==
  \E r \in Requests :
    /\ req[r].op = "create_transaction" /\ req[r].pc = "done" /\ req[r].code = 200
    /\ req[r].ttype = "withdrawal" /\ req[r].cash = req[r].amount
    /\ balance[req[r].account] = 0
    /\ Len(transactions) = 1

\* The account or order request r names exists and belongs to another user.
NamesForeign(r) ==
  IF req[r].op \in {"create_transaction", "place_order"}
  THEN req[r].account \in Accounts /\ Owner(req[r].account) # req[r].actor
  ELSE /\ req[r].order_id \in 1..Len(orders)
       /\ Owner(orders[req[r].order_id].account_id) # req[r].actor

\* The account or order request r names does not exist.
NamesMissing(r) ==
  IF req[r].op \in {"create_transaction", "place_order"}
  THEN req[r].account \notin Accounts
  ELSE req[r].order_id \notin 1..Len(orders)

\* Request r runs its lookup of the account or order in this step.
LooksUp(r) == req[r].pc = "begin" /\ req'[r].pc # "begin"

\* C16: in create_transaction, place_order (market or limit), cancel_order
\* and execute_order a request naming an account or order of another user
\* gets the outcome of one naming an account or order that does not exist:
\* 404 with the same detail and no state change; no request is ever
\* answered 403.
C16_ForeignLooksMissing ==
  [][\A r \in Requests :
       /\ (LooksUp(r) /\ (NamesForeign(r) \/ NamesMissing(r))) =>
            /\ req'[r].pc = "done"
            /\ req'[r].code = 404
            /\ req'[r].detail = IF req[r].op \in {"create_transaction", "place_order"}
                                THEN "account not found"
                                ELSE "order not found"
            /\ UNCHANGED <<ledger, lock, olock>>
       /\ req'[r].code # 403]_vars

\* C16 witness: one caller has been answered for a cancel_order on another
\* user's order and for an execute_order on an order id that does not
\* exist, with the same response.
C16_Witness ==
  \E r, s \in Requests :
    /\ req[r].pc = "done" /\ req[r].op = "cancel_order"
    /\ req[s].pc = "done" /\ req[s].op = "execute_order"
    /\ req[r].actor = req[s].actor
    /\ req[r].order_id \in 1..Len(orders)
    /\ Owner(orders[req[r].order_id].account_id) # req[r].actor
    /\ req[s].order_id \notin 1..Len(orders)
    /\ req[r].code = 404 /\ req[s].code = 404
    /\ req[r].detail = req[s].detail

\* An input precondition of the request in slot r does not hold.
InvalidInput(r) ==
  \/ /\ req[r].op = "create_transaction"
     /\ \/ req[r].amount <= 0
        \/ req[r].ttype \notin {"deposit", "withdrawal"}
  \/ /\ req[r].op = "place_order"
     /\ \/ req[r].quantity <= 0
        \/ req[r].price <= 0
        \/ lower(req[r].payload_side) \notin {"buy", "sell"}
        \/ lower(req[r].payload_order_type) \notin {"market", "limit"}

\* C17: a create_transaction or place_order whose input violates a
\* precondition is answered with the input error before the account is
\* looked up or its lock requested: it never enters the unit of work, never
\* holds a lock, and is never answered 404, whatever account it names.
C17_InputCheckedBeforeLock ==
  \A r \in Requests :
    InvalidInput(r) =>
      /\ req[r].pc = "done"
      /\ req[r].code \in {400, 422}
      /\ \A a \in Accounts : lock[a] # r
      /\ req[r].cash = 0

\* C17 witness: a transaction of an unsupported type naming an account that
\* does not exist was refused for its input while another request held the
\* lock of an account.
C17_Witness ==
  \E r, s \in Requests :
    /\ req[r].op = "create_transaction" /\ req[r].pc = "done"
    /\ req[r].ttype = "transfer" /\ req[r].amount > 0
    /\ req[r].account = MissingAccount
    /\ req[r].code \in {400, 422}
    /\ req[s].pc = "locked" /\ lock[req[s].account] = s

\* The responses that turn a request down for its input.
InputErrorDetails ==
  {"validation error", "quantity must be positive", "price must be positive",
   "side must be 'buy' or 'sell'", "order_type must be 'market' or 'limit'"}

\* C18: POST /orders with quantity <= 0, price <= 0, a side other than
\* buy/sell or an order_type other than market/limit is answered 400, the
\* detail naming quantity or price in those two cases, for market and limit
\* orders alike.
C18_InvalidOrderIs400 ==
  \A r \in Requests :
    (req[r].op = "place_order" /\ InvalidInput(r)) =>
      /\ req[r].pc = "done"
      /\ req[r].code = 400
      /\ req[r].quantity <= 0 => req[r].detail = "quantity must be positive"
      /\ (req[r].quantity > 0 /\ req[r].price <= 0) =>
           req[r].detail = "price must be positive"

\* C19: place_order accepts side and order_type in any letter case, uses and
\* stores them in lower case, and answers every other string, the empty
\* string included, with 400.
C19_CaseInsensitive ==
  \A r \in Requests :
    (req[r].op = "place_order" /\ req[r].quantity > 0 /\ req[r].price > 0) =>
      IF /\ lower(req[r].payload_side) \in {"buy", "sell"}
         /\ lower(req[r].payload_order_type) \in {"market", "limit"}
      THEN /\ req[r].code # 422
           /\ req[r].detail \notin InputErrorDetails
           /\ req[r].side \in {"buy", "sell"}
           /\ req[r].order_type \in {"market", "limit"}
      ELSE req[r].pc = "done" /\ req[r].code = 400

\* The amount in cents that a printed decimal denotes.
Cents(printed) == printed[1] * 100 + printed[2]

\* The audit rows of create_transaction.
TransactionAudits(log) == {i \in 1..Len(log) : log[i].action = "transaction_create"}

\* C20: a create_transaction that commits appends exactly one audit row
\* (transaction_create, actor = caller, old balance = the balance under the
\* lock, new balance = the balance written) together with the balance update
\* and the transaction row; a rejected one appends none; the numbers of
\* transaction_create audit rows and of transaction rows stay equal.
C20_AuditWithTransaction ==
  [][/\ \A r \in Requests :
          (Answered(r) /\ req[r].op = "create_transaction") =>
            IF req'[r].code = 200
            THEN LET row == audit'[Len(audit')] IN
                 /\ Len(audit') = Len(audit) + 1
                 /\ SubSeq(audit', 1, Len(audit)) = audit
                 /\ row.action = "transaction_create"
                 /\ row.user_id = req[r].actor
                 /\ Cents(row.old_values.balance) = balance[req[r].account]
                 /\ Cents(row.new_values.balance) = balance'[req[r].account]
                 /\ Len(transactions') = Len(transactions) + 1
            ELSE audit' = audit
     /\ (audit' # audit) = (transactions' # transactions)
     /\ Cardinality(TransactionAudits(audit')) = Len(transactions')]_vars

\* C20 witness: two transactions were committed, each with its audit row,
\* the second recording a balance that changed, and a third was rejected
\* under the lock.
C20_Witness ==
  /\ Len(audit) = 2 /\ Len(transactions) = 2
  /\ audit[2].old_values.balance # audit[2].new_values.balance
  /\ audit[2].old_values.balance = audit[1].new_values.balance
  /\ \E r \in Requests :
       /\ req[r].op = "create_transaction" /\ req[r].pc = "done"
       /\ req[r].code = 400 /\ req[r].detail = "insufficient funds"

\* C21: every filled order has executed_at set, whether a market placement
\* or an execute_order filled it; every cancelled order has cancelled_at
\* set; every pending order has neither.
C21_TimestampsMatchStatus ==
  \A i \in 1..Len(orders) :
    /\ orders[i].status = "filled" => orders[i].executed_at # "NULL"
    /\ orders[i].status = "cancelled" => orders[i].cancelled_at # "NULL"
    /\ orders[i].status = "pending" =>
         orders[i].executed_at = "NULL" /\ orders[i].cancelled_at = "NULL"

\* C22: every filled order has filled_quantity = quantity and
\* filled_price = price; every pending or cancelled order has
\* filled_quantity 0 and filled_price null.
C22_NoPartialFill ==
  \A i \in 1..Len(orders) :
    IF orders[i].status = "filled"
    THEN /\ orders[i].filled_quantity = orders[i].quantity
         /\ orders[i].filled_price = orders[i].price
    ELSE /\ orders[i].status \in {"pending", "cancelled"}
         /\ orders[i].filled_quantity = 0
         /\ orders[i].filled_price = NullPrice

\* C22 witness: the table holds an order filled by execute_order and an
\* order that is still pending.
C22_Witness ==
  \E i, j \in 1..Len(orders) :
    /\ orders[i].status = "filled" /\ orders[i].order_type = "limit"
    /\ orders[i].filled_quantity > 0
    /\ orders[j].status = "pending"

\* C23: every existing holding row has quantity > 0; a sell of exactly the
\* whole position is accepted and deletes the row.
C23_HoldingsPositive ==
  [][/\ \A k \in Accounts \X Securities :
          holdings'[k].exists => holdings'[k].quantity > 0
     /\ \A r \in Requests :
          ( /\ Finishes(r) /\ CoveredSell(r)
            /\ holdings[<<req[r].account, req[r].security>>].quantity
                 = req[r].quantity ) =>
            /\ req'[r].code \in {200, 201}
            /\ ~holdings'[<<req[r].account, req[r].security>>].exists]_vars

\* C23 witness: a position was built by a buy and sold whole by a market
\* order; its row is gone.
C23_Witness ==
  \E i, j \in 1..Len(orders) :
    /\ i < j
    /\ orders[i].status = "filled" /\ orders[i].side = "buy"
    /\ orders[j].status = "filled" /\ orders[j].side = "sell"
    /\ orders[j].order_type = "market"
    /\ orders[i].quantity = orders[j].quantity
    /\ ~holdings[<<orders[j].account_id, orders[j].security_id>>].exists

\* Request r is a buy under the lock that the committed balance covers: a
\* market order, or the execution of a pending limit buy.
AffordableBuy(r) ==
  /\ req[r].pc = "locked" /\ req[r].side = "buy"
  /\ \/ req[r].op = "place_order" /\ req[r].order_type = "market"
     \/ req[r].op = "execute_order" /\ orders[req[r].order_id].status = "pending"
  /\ balance[req[r].account] * QScale >= Notional(req[r].quantity, req[r].price)

\* C24: there is at most one holding row per (account, security): a buy
\* inserts a row only when the table has none for the pair, and otherwise
\* updates the one row, also when two buys of a security not yet held run
\* concurrently; the unique constraint is never hit.
C24_OneHoldingRow ==
  [][\A r \in Requests :
       /\ (Finishes(r) /\ AffordableBuy(r)) =>
            LET key == <<req[r].account, req[r].security>> IN
            /\ req[r].held = holdings[key]
            /\ req'[r].code \in {200, 201}
            /\ holdings'[key].exists
            /\ holdings'[key].quantity = holdings[key].quantity + req[r].quantity
       /\ req'[r].code # 500]_vars

\* C24 witness: two buys of a security the account did not hold were in
\* flight together and both were filled; the one row carries both quantities.
C24_Witness ==
  \E r, s \in Requests :
    /\ r # s /\ r \in req[s].peers
    /\ req[r].pc = "done" /\ req[s].pc = "done"
    /\ req[r].side = "buy" /\ req[s].side = "buy"
    /\ req[r].code \in {200, 201} /\ req[s].code \in {200, 201}
    /\ req[r].op # req[s].op
    /\ ~req[r].held.exists
    /\ Len(orders) = 2
    /\ holdings[<<req[r].account, req[r].security>>].quantity
         = req[r].quantity + req[s].quantity

\* The account whose row request r asks for.
AccountAskedFor(r) ==
  IF req[r].op \in {"cancel_order", "execute_order"}
  THEN IF req[r].order_id \in 1..Len(orders)
       THEN orders[req[r].order_id].account_id
       ELSE MissingAccount
  ELSE req[r].account

\* C25: operations on different accounts never wait for each other: a
\* request can take its next step unless a unit of work on the account it
\* asks for is in progress, so it proceeds, and the other can commit, while
\* a lock on another account is held.
C25_OtherAccountsNeverBlock ==
  \A r \in Requests :
    req[r].pc = "begin" =>
      \/ ENABLED AcquireLock(r)
      \/ \E s \in Requests \ {r} :
           req[s].pc = "locked" /\ req[s].account = AccountAskedFor(r)

\* C25 witness: two units of work hold the locks of two different accounts
\* at the same time.
C25_Witness ==
  \E r, s \in Requests :
    /\ req[r].pc = "locked" /\ req[s].pc = "locked"
    /\ req[r].account # req[s].account
    /\ lock[req[r].account] = r /\ lock[req[s].account] = s
    /\ req[r].op = "execute_order" /\ req[s].op \in {"create_transaction", "place_order"}

\* C26: a row lock is held only by a request inside its unit of work, and is
\* released by every exit from it (commit, rejection, error, abandoned
\* request); every request that has arrived is eventually answered: none
\* waits for a lock for ever and none deadlocks.
C26_LocksReleasedAndProgress ==
  /\ [](\A a \in Accounts : lock[a] # NoReq => req[lock[a]].pc = "locked")
  /\ [](\A r \in Requests : olock[r] # 0 => req[r].pc = "locked")
  /\ [][\A r \in Requests :
          Answered(r) => /\ \A a \in Accounts : lock'[a] # r
                         /\ olock'[r] = 0]_vars
  /\ \A r \in Requests : InFlight(r) ~> (req[r].pc = "done")

\* C26 witness: a request that held the account lock was abandoned, and the
\* request that was in flight with it then got the lock.
C26_Witness ==
  \E r, s \in Requests :
    /\ req[r].pc = "done" /\ req[r].code = 499 /\ req[r].cash > 0
    /\ r \in req[s].peers
    /\ req[s].pc = "locked" /\ lock[req[s].account] = s
    /\ req[s].op \in {"cancel_order", "execute_order"}

\* Account a is locked before and after this step.
StaysLocked(a) == account_status[a] = "locked" /\ account_status'[a] = "locked"

\* This step places an order on account a or fills one of its orders.
OrderPlacedOrFilled(a) ==
  \/ /\ Len(orders') > Len(orders)
     /\ orders'[Len(orders')].account_id = a
  \/ \E o \in 1..Len(orders) :
       /\ orders[o].account_id = a
       /\ orders[o].status # "filled" /\ orders'[o].status = "filled"

\* C27: while an account's status is 'locked' (from lock_account to
\* unlock_account), no request that arrived after the lock places or fills
\* an order on it or changes its balance.
C27_LockedAccountBlocked ==
  [][\A a \in Accounts, r \in Requests :
       (StaysLocked(a) /\ InFlight(r) /\ a \in req[r].locked0 /\ req'[r] # req[r])
         => /\ balance'[a] = balance[a]
            /\ ~OrderPlacedOrFilled(a)]_vars

\* A new request takes slot r in this step.
Arrives(r) ==
  /\ nreq' = nreq + 1
  /\ ~InFlight(r)
  /\ \A s \in SlotsBefore(r) : InFlight(s)

\* C28: a login that looks the user up while is_active is false is answered
\* 401 whatever the password; a refresh that looks the user up then is
\* answered 401 and the presented token's row is deleted; and every request
\* that presents an access token of the user then is answered 401, so none
\* made between lock_user and unlock_user succeeds.
C28_InactiveUserRejected ==
  [][\A r \in Requests :
       /\ (Arrives(r) /\ req'[r].op = "login" /\ req'[r].actor \in Users
           /\ ~is_active[req'[r].actor])
            => (req'[r].pc = "done" /\ req'[r].code = 401)
       /\ (req[r].op = "refresh" /\ req[r].pc = "begin" /\ req'[r].pc # "begin"
           /\ ~is_active[req[r].record.user_id])
            => /\ req'[r].pc = "done" /\ req'[r].code = 401
               /\ req[r].record \notin refresh_tokens'
       /\ (Arrives(r)
           /\ req'[r].op \in {"get_current_user", "create_transaction", "get_quote"}
           /\ req'[r].actor \in Users /\ ~is_active[req'[r].actor])
            => (req'[r].pc = "done" /\ req'[r].code = 401)]_vars

\* Request r is a refresh answered with a new token in this step.
Rotates(r) ==
  /\ req[r].op = "refresh" /\ req[r].pc = "locked"
  /\ req'[r].pc = "done" /\ req'[r].code = 200

\* C29: a successful refresh deletes the row of the presented token and
\* issues a fresh one, so no token is redeemed by two refreshes, concurrent
\* or not; a refresh without a cookie, with an unknown token or with an
\* expired one is answered 401 and issues nothing.
C29_RefreshTokenRotation ==
  /\ [][\A r \in Requests :
          /\ Rotates(r) =>
               /\ req[r].record \notin refresh_tokens'
               /\ issued' = issued + 1
               /\ TokenRecord(refresh_tokens', hash_token(req'[r].cookie)) # NoRecord
          /\ (Arrives(r) /\ req'[r].op = "refresh"
              /\ LET record == TokenRecord(refresh_tokens, hash_token(req'[r].token)) IN
                 \/ req'[r].token = NoCookie
                 \/ record = NoRecord
                 \/ record.expires_at < now)
               => /\ req'[r].pc = "done" /\ req'[r].code = 401
                  /\ issued' = issued]_vars
  /\ [](\A r, s \in Requests :
          (/\ r # s
           /\ req[r].op = "refresh" /\ req[s].op = "refresh"
           /\ Succeeded(r) /\ Succeeded(s))
            => req[r].token # req[s].token)

\* Request r is a reset_password answered with a success in this step.
Resets(r) ==
  /\ req[r].op = "reset_password" /\ req[r].pc = "locked"
  /\ req'[r].pc = "done" /\ req'[r].code = 200

\* C30: reset_password is refused with 400 for a token without a row, with a
\* used or expired row, or of an inactive user; a success stores the new
\* password and marks the row used in one commit; and no token is redeemed
\* by two resets, concurrent or not.
C30_ResetTokenOneTime ==
  /\ [][\A r \in Requests :
          /\ (Arrives(r) /\ req'[r].op = "reset_password"
              /\ LET record == TokenRecord(password_reset_tokens,
                                           hash_token(req'[r].token)) IN
                 \/ record = NoRecord
                 \/ record.used
                 \/ record.expires_at < now)
               => (req'[r].pc = "done" /\ req'[r].code = 400)
          /\ (req[r].op = "reset_password" /\ req[r].pc = "begin"
              /\ req'[r].pc # "begin" /\ ~is_active[req[r].record.user_id])
               => (req'[r].pc = "done" /\ req'[r].code = 400)
          /\ Resets(r) =>
               /\ password_hash'[req[r].record.user_id] = hash_password(req[r].password)
               /\ TokenRecord(password_reset_tokens', req[r].record.token).used]_vars
  /\ [](\A r, s \in Requests :
          (/\ r # s
           /\ req[r].op = "reset_password" /\ req[s].op = "reset_password"
           /\ Succeeded(r) /\ Succeeded(s))
            => req[r].token # req[s].token)

\* C31: get_summary answers 200 with, for each account of the caller,
\* total_value = cash balance + the sum of quantity * current_price over its
\* holdings (0 without holdings) and with the sum of these as the portfolio
\* total; a caller without accounts gets the empty summary with total 0; and
\* the call changes nothing stored.
C31_SummaryTotals ==
  [][\A r \in Requests :
       /\ (Arrives(r) /\ req'[r].op = "get_portfolio_summary")
            => /\ UNCHANGED <<ledger, identity>>
               /\ AccountsOf(req'[r].actor) = {}
                    => /\ req'[r].pc = "done" /\ req'[r].code = 200
                       /\ req'[r].body = [accounts |-> <<>>, total_portfolio_value |-> 0]
       /\ (req[r].op = "get_portfolio_summary" /\ req[r].pc = "begin"
           /\ req'[r].pc = "done")
            => /\ UNCHANGED <<ledger, identity>>
               /\ req'[r].code = 200
               /\ DOMAIN req'[r].body.accounts = AccountsOf(req[r].actor)
               /\ \A a \in AccountsOf(req[r].actor) :
                    LET row == req'[r].body.accounts[a] IN
                    /\ row.cash_balance = req[r].body[a] * QScale
                    /\ row.positions_value =
                         SumOver([s \in Securities |->
                                    IF holdings[<<a, s>>].exists
                                    THEN holdings[<<a, s>>].quantity
                                           * holdings[<<a, s>>].current_price
                                    ELSE 0], Securities)
                    /\ row.total_value = row.cash_balance + row.positions_value
               /\ req'[r].body.total_portfolio_value =
                    SumOver([a \in AccountsOf(req[r].actor) |->
                               req'[r].body.accounts[a].total_value],
                            AccountsOf(req[r].actor))]_vars

\* Request r is a listing that has been answered.
Listed(r) ==
  /\ req[r].op \in {"list_orders", "list_transactions"}
  /\ req[r].pc = "done" /\ req[r].code = 200

\* C32: list_orders and list_transactions return only rows of accounts the
\* caller owns, whatever account_id is passed, and neither changes stored
\* state or takes a lock.
C32_ListingsOwnedOnly ==
  /\ [](\A r \in Requests :
          Listed(r) => \A i \in 1..Len(req[r].body) :
                         Owner(req[r].body[i].account_id) = req[r].actor)
  /\ [][\A r \in Requests :
          (Arrives(r) /\ req'[r].op \in {"list_orders", "list_transactions"})
            => UNCHANGED <<ledger, identity, lock, olock>>]_vars

\* C32 witness: u2 has listed with the account of u1 as account_id while
\* that account had rows in the table, and got none of them.
C32_Witness ==
  \E r \in Requests :
    /\ Listed(r) /\ req[r].actor = "u2" /\ req[r].account = "a1"
    /\ req[r].body = <<>>
    /\ \/ req[r].op = "list_orders"
          /\ \E i \in 1..Len(orders) : orders[i].account_id = "a1"
       \/ req[r].op = "list_transactions"
          /\ \E i \in 1..Len(transactions) : transactions[i].account_id = "a1"

\* Request r commits or rolls back a create_transaction whose reference
\* number is carried by a stored transaction.
DuplicateReference(r) ==
  /\ req[r].op = "create_transaction" /\ req[r].pc = "locked"
  /\ req'[r].pc = "done"
  /\ req[r].reference_number # NoReference
  /\ \E i \in 1..Len(transactions) :
       transactions[i].reference_number = req[r].reference_number

\* C33: create_transaction with a reference number that a stored transaction
\* carries ends with a 4xx business error and leaves the balances, the
\* transactions and the audit log unchanged.
C33_DuplicateReferenceConflict ==
  [][\A r \in Requests :
       DuplicateReference(r)
         => /\ req'[r].code \in 400..499
            /\ UNCHANGED <<balance, transactions, audit>>]_vars

\* The answer of cancel_order or execute_order to an order that is not
\* pending.
InvalidState(r) ==
  /\ req[r].code = 400
  /\ req[r].detail = IF req[r].op = "cancel_order"
                     THEN "only pending orders can be cancelled"
                     ELSE "only pending orders can be executed"

\* r and s are answered requests, an execute_order and a cancel_order or
\* two execute_order, of the owner on the same order, which was pending when
\* each of them arrived, and one arrived while the other was in flight.
RacePair(r, s) ==
  /\ r # s
  /\ req[r].pc = "done" /\ req[s].pc = "done"
  /\ req[r].op = "execute_order" /\ req[s].op \in {"execute_order", "cancel_order"}
  /\ req[r].order_id = req[s].order_id
  /\ req[r].status0 = "pending" /\ req[s].status0 = "pending"
  /\ OrderVisible(req[r].actor, req[r].order_id)
  /\ OrderVisible(req[s].actor, req[s].order_id)
  /\ s \in req[r].peers \/ r \in req[s].peers

TookEffect(r) == req[r].code = 200

\* An order row is never both filled and cancelled.
NeverBoth ==
  \A i \in 1..Len(orders) :
    /\ orders[i].status = "filled" => orders[i].cancelled_at = "NULL"
    /\ orders[i].status = "cancelled"
         => orders[i].executed_at = "NULL" /\ orders[i].filled_price = NullPrice

\* C34 as stated: of an execute_order racing a cancel_order or another
\* execute_order on one pending order, exactly one takes effect and the
\* other fails with the invalid-state error.
C34_ExactlyOneTakesEffect ==
  \A r, s \in Requests :
    RacePair(r, s) => \/ TookEffect(r) /\ InvalidState(s)
                      \/ TookEffect(s) /\ InvalidState(r)

\* C34 amended: of an execute_order racing a cancel_order or another
\* execute_order on one pending order, at most one takes effect; an
\* execute_order that finds the order pending and is refused by the ledger
\* checks leaves it pending; once one has taken effect the other fails with
\* the invalid-state error and changes nothing; the order is never both
\* filled and cancelled, and the balance and the holding change only in the
\* step that fills it.
C34_AtMostOneTakesEffect ==
  /\ [](\A r, s \in Requests :
          RacePair(r, s) =>
            /\ ~(TookEffect(r) /\ TookEffect(s))
            /\ TookEffect(r) \/ TookEffect(s)
                 => orders[req[r].order_id].status \in {"filled", "cancelled"}
            /\ ~TookEffect(r) /\ ~TookEffect(s)
                 => /\ orders[req[r].order_id].status = "pending"
                    /\ ~InvalidState(r) /\ ~InvalidState(s))
  /\ []NeverBoth
  /\ [][\A r \in Requests :
          (Finishes(r) /\ req[r].op \in {"execute_order", "cancel_order"}) =>
            LET i == req[r].order_id IN
            /\ orders[i].status # "pending"
                 => /\ InvalidState(r)'
                    /\ UNCHANGED <<balance, holdings, orders>>
            /\ <<balance, holdings>>' # <<balance, holdings>>
                 => /\ req[r].op = "execute_order"
                    /\ orders[i].status = "pending" /\ orders'[i].status = "filled"
            /\ req[r].op = "cancel_order" => UNCHANGED <<balance, holdings>>]_vars

\* C34 witness: an execute_order and a cancel_order, or two execute_order,
\* raced on a pending order: one filled or cancelled it, the other got the
\* invalid-state error.
C34_Witness ==
  \E r, s \in Requests :
    /\ RacePair(r, s)
    /\ \/ TookEffect(r) /\ InvalidState(s) /\ orders[req[r].order_id].status = "filled"
       \/ TookEffect(s) /\ InvalidState(r) /\ req[s].op = "cancel_order"
          /\ orders[req[r].order_id].status = "cancelled"

\* Request r, in one of the four handlers and past the handler's own checks,
\* leaves the point where it opens its block.
OpensBlock(r) ==
  /\ req[r].op \in {"create_transaction", "place_order", "cancel_order", "execute_order"}
  /\ req[r].pc = "handler" /\ req'[r].pc # "handler"
  /\ handler_precheck(req[r]) = ""

\* C35: in create_transaction, place_order, cancel_order and execute_order
\* the db.begin() block is opened on a session without a transaction in
\* progress, after get_current_user has run its query on that session, and
\* every authenticated request gets into the block.
C35_BlockEntered ==
  [][\A r \in Requests :
       OpensBlock(r) => ~req[r].in_transaction /\ req'[r].pc = "begin"]_vars

\* The sum of the first n terms of a sequence of numbers.
RECURSIVE SumRows(_, _)
SumRows(terms, n) ==
  IF n = 0 THEN 0 ELSE terms[n] + SumRows(terms, n - 1)

\* The cash of account a as its history gives it, in millionths of a cent:
\* opening balance, plus deposits, minus withdrawals, minus the notional of
\* filled buys, plus the notional of filled sells.
ReconciledCash(a) ==
  LET cash(t) == IF t.account_id # a \/ t.status # "completed" THEN 0
                 ELSE IF t.transaction_type = "deposit" THEN t.amount * QScale
                 ELSE IF t.transaction_type = "withdrawal" THEN 0 - t.amount * QScale
                 ELSE 0
      trade(o) == IF o.account_id # a \/ o.status # "filled" THEN 0
                  ELSE IF lower(o.side) = "buy" THEN 0 - Notional(o.quantity, o.price)
                  ELSE Notional(o.quantity, o.price)
  IN opening[a] * QScale
       + SumRows([i \in 1..Len(transactions) |-> cash(transactions[i])], Len(transactions))
       + SumRows([i \in 1..Len(orders) |-> trade(orders[i])], Len(orders))

\* C36: the stored balance of every account, a number of whole cents, equals
\* its opening balance plus its deposits minus its withdrawals minus the
\* notional of its filled buys plus the notional of its filled sells.
C36_CashReconciles ==
  \A a \in Accounts : balance[a] * QScale = ReconciledCash(a)

\* The position of account a in security k as its filled orders give it:
\* filled_quantity of the filled buys minus that of the filled sells.
ReconciledPosition(a, k) ==
  LET fill(o) == IF o.account_id # a \/ o.security_id # k \/ o.status # "filled" THEN 0
                 ELSE IF lower(o.side) = "buy" THEN o.filled_quantity
                 ELSE 0 - o.filled_quantity
  IN SumRows([i \in 1..Len(orders) |-> fill(orders[i])], Len(orders))

HeldQuantity(a, k) ==
  IF holdings[<<a, k>>].exists THEN holdings[<<a, k>>].quantity ELSE 0

\* C37: for every account and security the quantity held (0 without a row)
\* equals the filled_quantity of the account's filled buys in the security
\* minus that of its filled sells; pending and cancelled orders count for
\* nothing.
C37_PositionReconciles ==
  \A a \in Accounts, k \in Securities : HeldQuantity(a, k) = ReconciledPosition(a, k)

\* C37 witness: an account holds what is left after a filled buy and a
\* filled sell of a part of it, while another of its orders is pending or
\* cancelled.
C37_Witness ==
  \E i, j, n \in 1..Len(orders) :
    /\ orders[i].status = "filled" /\ orders[i].side = "buy"
    /\ orders[j].status = "filled" /\ orders[j].side = "sell"
    /\ orders[n].status \in {"pending", "cancelled"}
    /\ orders[i].account_id = "a1" /\ orders[j].account_id = "a1"
    /\ orders[n].account_id = "a1"
    /\ HeldQuantity("a1", "s1") = orders[i].filled_quantity - orders[j].filled_quantity
    /\ HeldQuantity("a1", "s1") > 0

\* Every account but a and every holding but (a, k) is as it was.
OthersUntouched(a, k) ==
  /\ \A b \in Accounts \ {a} : balance'[b] = balance[b]
  /\ \A h \in (Accounts \X Securities) \ {<<a, k>>} : holdings'[h] = holdings[h]

C39_AuditIdentifiesRecord ==
  [][\A r \in Requests :
       (Finishes(r) /\ req[r].op = "create_transaction" /\ req'[r].code = 200)
         => /\ Len(audit') = Len(audit) + 1
            /\ Len(transactions') = Len(transactions) + 1
            /\ audit'[Len(audit')].record_id = NewTransaction.transaction_id]_vars

====
